---- MODULE Spec2Model ----
(***************************************************************************)
(* Model of the NEDL ownership ETL: the dimensional-model builders         *)
(* (src/transform), the data-quality engine (src/validation) and the       *)
(* daily_ownership_flow that gates the load on the DQ report.              *)
(*                                                                         *)
(* Encoding of Python values.  Every scalar is an integer.  None and a     *)
(* missing dict key are both NULL (dict.get returns None for either).      *)
(* Dates "YYYY-MM-DD" are the integer YYYYMMDD, which orders as the        *)
(* strings do for four-digit years.  A dict is a function whose DOMAIN is  *)
(* the key set; where the code iterates a dict, the keys are taken in      *)
(* insertion order (first occurrence), as Python dicts keep them.          *)
(***************************************************************************)
EXTENDS Integers, Sequences, FiniteSets, TLC

VARIABLES
    pc,                        \* position in the flow / of the function under check
    properties_raw,            \* extract_properties result
    property_history_raw,      \* extract_property_history result
    entities_raw,              \* extract_entities result
    transactions_raw,          \* extract_transactions result (embedded parties)
    dim_property,
    property_key_lookup,
    dim_entity,
    dim_entity_identifier,
    entity_key_lookup,
    fact_transaction,
    transaction_key_lookup,
    bridge_transaction_party,
    bridge_property_owner,
    date_range,                \* <<start_date, end_date>> handed to the DQ engine, or NULL
    dq_report,                 \* DQReport: [checks, statistics]
    load_calls,                \* number of load_to_supabase calls
    load_result,               \* the flow's load_result
    events,                    \* emitted Prefect events, in order
    check_args,                \* arguments of one dq_check / add_check call
    raw_tables,                \* rows flattened for raw.cherre_transactions / grantors / grantees
    first_run,                 \* build_dim_entity's output of the previous run on this input
    analytics,                 \* rows held by the analytics.* warehouse tables
    runs,                      \* transform-analytics builds run so far
    checkpoint,                \* the Checkpoint object: [completed, failed]
    checkpoint_file,           \* content of .backfill_checkpoint.json, <<>> while absent
    call,                      \* the last Checkpoint method call: [method, month]
    backfill,                  \* run_backfill's locals and the months it processed
    client                     \* query_cherre: settings.max_retries, retry argument, requests
                               \* posted, seconds slept, last response, returned value

rawVars   == <<properties_raw, property_history_raw, entities_raw, transactions_raw>>
dimVars   == <<dim_property, property_key_lookup, dim_entity, dim_entity_identifier,
               entity_key_lookup>>
factVars  == <<fact_transaction, transaction_key_lookup>>
brVars    == <<bridge_transaction_party, bridge_property_owner>>
outVars   == <<load_calls, load_result, events>>
auxVars   == <<raw_tables, first_run>>
whVars    == <<analytics, runs>>
cpVars    == <<checkpoint, checkpoint_file, call, backfill>>
opsVars   == <<whVars, cpVars, client>>
vars      == <<pc, rawVars, dimVars, factVars, brVars, date_range, dq_report, outVars,
               check_args, auxVars, opsVars>>

(***************************************************************************)
(* Python values                                                           *)
(***************************************************************************)
NULL == -1

\* bool(v) for an optional number or code: None and 0 are falsy.
Truthy(v) == v # NULL /\ v # 0

\* a or b
PyOr(a, b) == IF Truthy(a) THEN a ELSE b

\* d.get(k)
Get(d, k) == IF k \in DOMAIN d THEN d[k] ELSE NULL

EmptyDict == [k \in {} |-> NULL]

\* The keys of a dict filled by inserting s[1], s[2], ... : distinct, in order of
\* first occurrence.
OrderedKeys(s) ==
    LET F[i \in 0..Len(s)] ==
            IF i = 0 THEN <<>>
            ELSE IF \E j \in 1..Len(F[i-1]) : F[i-1][j] = s[i]
                 THEN F[i-1]
                 ELSE Append(F[i-1], s[i])
    IN  F[Len(s)]

\* The concatenation of the sequences of a sequence.
Flatten(ss) ==
    LET F[i \in 0..Len(ss)] == IF i = 0 THEN <<>> ELSE F[i-1] \o ss[i]
    IN  F[Len(ss)]

\* Sum of f[i] over i in 1..Len(f)
SumSeq(f) ==
    LET F[i \in 0..Len(f)] == IF i = 0 THEN 0 ELSE F[i-1] + f[i]
    IN  F[Len(f)]

\* sum(1 for x in s if x matches)
CountSeq(s, matching) == Cardinality({i \in 1..Len(s) : s[i] \in matching})

Range(s) == {s[i] : i \in 1..Len(s)}

\* All sequences over S of length at most n.
SeqUpTo(S, n) == UNION {[1..k -> S] : k \in 0..n}

(***************************************************************************)
(* build_dim_property  (src/transform/dim_property.py)                     *)
(***************************************************************************)
DefaultValidFrom == 20250101

\* f"{year}-01-01"
YearStart(year) == year * 10000 + 101

\* property_lookup = {p["tax_assessor_id"]: p for p in properties}: keys in order of
\* first occurrence, the value of a key is the last record carrying it.
PropertyIds(properties) ==
    OrderedKeys([i \in 1..Len(properties) |-> properties[i].tax_assessor_id])

PropertyOf(properties, tax_id) ==
    LET last == CHOOSE i \in 1..Len(properties) :
                    /\ properties[i].tax_assessor_id = tax_id
                    /\ \A j \in (i+1)..Len(properties) :
                            properties[j].tax_assessor_id # tax_id
    IN  properties[last]

\* history_by_property[tax_id], before deduplication
HistoryOf(property_history, tax_id) ==
    SelectSeq(property_history, LAMBDA h : h.tax_assessor_id = tax_id)

\* x.get("cherre_tax_assessor_history_v2_pk", 0)
PkOrdinal(h) ==
    IF h.cherre_tax_assessor_history_v2_pk = NULL THEN 0
    ELSE h.cherre_tax_assessor_history_v2_pk

LatestMutantLowestPk(recs) ==
    LET i == CHOOSE i \in 1..Len(recs) :
                /\ \A j \in 1..Len(recs) : PkOrdinal(recs[j]) >= PkOrdinal(recs[i])
                /\ \A j \in 1..(i-1) : PkOrdinal(recs[j]) > PkOrdinal(recs[i])
    IN  recs[i]

\* max(recs, key=pk): the first record among those of highest pk
Latest(recs) ==
    LET i == CHOOSE i \in 1..Len(recs) :
                /\ \A j \in 1..Len(recs) : PkOrdinal(recs[j]) <= PkOrdinal(recs[i])
                /\ \A j \in 1..(i-1) : PkOrdinal(recs[j]) < PkOrdinal(recs[i])
    IN  recs[i]

\* deduped: one record per snapshot year, years in order of first occurrence
Deduped(records) ==
    LET years == OrderedKeys([i \in 1..Len(records) |->
                                records[i].assessor_snap_shot_year])
    IN  [k \in 1..Len(years) |->
            Latest(SelectSeq(records,
                             LAMBDA h : h.assessor_snap_shot_year = years[k]))]

SortedByYearMutantUnsorted(s) == s

\* sorted(s, key=year): stable
SortedByYear(s) ==
    LET rank(i) == Cardinality({j \in 1..Len(s) :
                        \/ s[j].assessor_snap_shot_year < s[i].assessor_snap_shot_year
                        \/ /\ s[j].assessor_snap_shot_year = s[i].assessor_snap_shot_year
                           /\ j < i}) + 1
    IN  [k \in 1..Len(s) |-> s[CHOOSE i \in 1..Len(s) : rank(i) = k]]

\* hist.get(f) or prop.get(f)
HistoryOrCurrent(hist_value, prop_value) == PyOr(hist_value, prop_value)

IsCurrentMutantOffByOne(i, n) == i >= n - 1

\* is_current = i == len(histories) - 1   (i counted from 1 here)
IsCurrent(i, n) == i = n

\* The rows of one property, without their surrogate keys.
PropertyRows(prop, histories) ==
    IF Len(histories) > 0
    THEN [i \in 1..Len(histories) |->
            [ tax_assessor_id   |-> prop.tax_assessor_id,
              property_use_code |-> prop.property_use_standardized_code,
              property_address  |-> prop.address,
              building_sqft     |-> HistoryOrCurrent(histories[i].building_sq_ft,
                                                     prop.building_sq_ft),
              land_sqft         |-> HistoryOrCurrent(histories[i].lot_size_sq_ft,
                                                     prop.lot_size_sq_ft),
              assessed_value    |-> histories[i].assessed_value_total,
              valid_from        |-> YearStart(histories[i].assessor_snap_shot_year),
              valid_to          |-> IF IsCurrent(i, Len(histories)) THEN NULL
                                    ELSE YearStart(
                                            histories[i+1].assessor_snap_shot_year),
              is_current        |-> IsCurrent(i, Len(histories)) ]]
    ELSE << [ tax_assessor_id   |-> prop.tax_assessor_id,
              property_use_code |-> prop.property_use_standardized_code,
              property_address  |-> prop.address,
              building_sqft     |-> prop.building_sq_ft,
              land_sqft         |-> prop.lot_size_sq_ft,
              assessed_value    |-> prop.assessed_value_total,
              valid_from        |-> DefaultValidFrom,
              valid_to          |-> NULL,
              is_current        |-> TRUE ] >>

WithKeysMutantFromZero(rows, key_field) ==
    [i \in 1..Len(rows) |-> [f \in DOMAIN rows[i] \cup {key_field} |->
                                IF f = key_field THEN i - 1 ELSE rows[i][f]]]

\* property_key_counter: rows numbered 1, 2, ... in emission order
WithKeys(rows, key_field) ==
    [i \in 1..Len(rows) |-> [f \in DOMAIN rows[i] \cup {key_field} |->
                                IF f = key_field THEN i ELSE rows[i][f]]]

BuildDimPropertyRows(properties, property_history) ==
    LET ids == PropertyIds(properties)
    IN  WithKeys(
            Flatten([k \in 1..Len(ids) |->
                PropertyRows(PropertyOf(properties, ids[k]),
                             SortedByYear(Deduped(HistoryOf(property_history,
                                                            ids[k]))))]),
            "property_key")

\* build_dim_property raises: KeyError on p["tax_assessor_id"],
\* hist["tax_assessor_id"] or rec["assessor_snap_shot_year"] of a record without
\* that key; TypeError in sorted() when a property's deduplicated history holds a
\* null year next to another year.
DimPropertyRaises(properties, property_history) ==
    \/ \E i \in 1..Len(properties) : "tax_assessor_id" \notin DOMAIN properties[i]
    \/ \E i \in 1..Len(property_history) :
            \/ "tax_assessor_id" \notin DOMAIN property_history[i]
            \/ "assessor_snap_shot_year" \notin DOMAIN property_history[i]
    \/ \E i \in 1..Len(properties) : \E j, k \in 1..Len(property_history) :
            /\ property_history[j].tax_assessor_id = properties[i].tax_assessor_id
            /\ property_history[k].tax_assessor_id = properties[i].tax_assessor_id
            /\ property_history[j].assessor_snap_shot_year = NULL
            /\ property_history[k].assessor_snap_shot_year # NULL

PropertyKeyLookupMutantAnyRow(rows) ==
    [id \in {rows[i].tax_assessor_id : i \in 1..Len(rows)} |->
        rows[CHOOSE i \in 1..Len(rows) :
                /\ rows[i].tax_assessor_id = id
                /\ \A j \in 1..(i-1) : rows[j].tax_assessor_id # id].property_key]

\* property_key_lookup: tax_assessor_id -> property_key of the last current row
PropertyKeyLookup(rows) ==
    [id \in {rows[i].tax_assessor_id : i \in {j \in 1..Len(rows) : rows[j].is_current}} |->
        rows[CHOOSE i \in 1..Len(rows) :
                /\ rows[i].is_current /\ rows[i].tax_assessor_id = id
                /\ \A j \in (i+1)..Len(rows) :
                        ~(rows[j].is_current /\ rows[j].tax_assessor_id = id)
            ].property_key]

(***************************************************************************)
(* build_dim_entity  (src/transform/dim_entity.py)                         *)
(*                                                                         *)
(* An owner_id is the sequence of its "::"-separated parts: "A::LLC" is    *)
(* <<"A", "LLC">>, "A" is <<"A">>, the empty string is <<"">> and None is  *)
(* <<>>.  owner_id.split("::") is then the sequence itself.                *)
(***************************************************************************)
NoOwnerId == <<>>

\* bool(owner_id): None and "" are falsy
OwnerIdPresent(owner_id) == owner_id # <<>> /\ owner_id # <<"">>

\* entities_by_owner_id: the records with an owner_id, grouped
OwnedEntities(entities) == SelectSeq(entities, LAMBDA e : OwnerIdPresent(e.owner_id))

OwnerIdsMutantOnlyNew(entities) ==
    LET owned == SelectSeq(OwnedEntities(entities),
                           LAMBDA e : \A i \in 1..Len(dim_entity) :
                                        dim_entity[i].canonical_entity_id # e.owner_id)
    IN  OrderedKeys([i \in 1..Len(owned) |-> owned[i].owner_id])

OwnerIds(entities) ==
    LET owned == OwnedEntities(entities)
    IN  OrderedKeys([i \in 1..Len(owned) |-> owned[i].owner_id])

BaseRecordMutantLast(entities, owner_id) ==
    LET owned == OwnedEntities(entities)
    IN  owned[CHOOSE i \in 1..Len(owned) :
                /\ owned[i].owner_id = owner_id
                /\ \A j \in (i+1)..Len(owned) : owned[j].owner_id # owner_id]

\* ent_records[0]
BaseRecord(entities, owner_id) ==
    LET owned == OwnedEntities(entities)
    IN  owned[CHOOSE i \in 1..Len(owned) :
                /\ owned[i].owner_id = owner_id
                /\ \A j \in 1..(i-1) : owned[j].owner_id # owner_id]

ConfidenceScore(base) ==
    LET occ == PyOr(base.occurrences_count, 0)
    IN  (IF Truthy(base.has_confidence) THEN 50 ELSE 0)
        + (IF occ >= 10 THEN 50 ELSE IF occ >= 5 THEN 30 ELSE IF occ >= 2 THEN 20 ELSE 10)

EntityRow(base, owner_id, key) ==
    [ entity_key            |-> key,
      canonical_entity_id   |-> owner_id,
      canonical_entity_name |-> base.owner_name,
      confidence_score      |-> ConfidenceScore(base),
      occurrences_count     |-> base.occurrences_count,
      valid_from            |-> DefaultValidFrom,
      valid_to              |-> base.last_seen_date,
      is_current            |-> TRUE ]

BuildDimEntityRows(entities) ==
    LET ids == OwnerIds(entities)
    IN  [k \in 1..Len(ids) |-> EntityRow(BaseRecord(entities, ids[k]), ids[k], k)]

\* parts = owner_id.split("::"); if len(parts) > 0 and parts[0]
HasNamePart(owner_id) == Len(owner_id) > 0 /\ owner_id[1] # ""

\* The identifier rows of one entity, without their surrogate keys.
IdentifierRows(entity) ==
    << [ entity_key       |-> entity.entity_key,
         identifier_type  |-> "cherre_owner_id",
         identifier_value |-> entity.canonical_entity_id,
         is_primary       |-> TRUE,
         valid_from       |-> entity.valid_from,
         valid_to         |-> entity.valid_to,
         is_current       |-> TRUE ] >>
    \o (IF HasNamePart(entity.canonical_entity_id)
        THEN << [ entity_key       |-> entity.entity_key,
                  identifier_type  |-> "owner_name",
                  identifier_value |-> <<entity.canonical_entity_id[1]>>,
                  is_primary       |-> FALSE,
                  valid_from       |-> entity.valid_from,
                  valid_to         |-> entity.valid_to,
                  is_current       |-> TRUE ] >>
        ELSE <<>>)

BuildDimEntityIdentifierRows(entity_rows) ==
    WithKeys(Flatten([k \in 1..Len(entity_rows) |-> IdentifierRows(entity_rows[k])]),
             "identifier_key")

EntityKeyLookupMutantNextKey(entity_rows) ==
    [id \in {entity_rows[i].canonical_entity_id : i \in 1..Len(entity_rows)} |->
        1 + entity_rows[CHOOSE i \in 1..Len(entity_rows) :
                entity_rows[i].canonical_entity_id = id].entity_key]

\* entity_key_lookup = {e["canonical_entity_id"]: e["entity_key"] for e in dim_entity}
EntityKeyLookup(entity_rows) ==
    [id \in {entity_rows[i].canonical_entity_id : i \in 1..Len(entity_rows)} |->
        entity_rows[CHOOSE i \in 1..Len(entity_rows) :
                /\ entity_rows[i].canonical_entity_id = id
                /\ \A j \in (i+1)..Len(entity_rows) :
                        entity_rows[j].canonical_entity_id # id].entity_key]

(***************************************************************************)
(* build_fact_transaction  (src/transform/fact_transaction.py; the same    *)
(* classification is in src/analytics/fact_transaction.py transform)       *)
(***************************************************************************)
\* A null in the place of an embedded party list: not a sequence
NullList == [k \in {0} |-> NULL]

\* build_fact_transaction raises: TypeError on len(None) when an embedded party
\* list is null (txn.get(key, []) returns the null), KeyError on
\* txn['recorder_id'] of a record without that key.
FactTransactionRaises(transactions) ==
    \E i \in 1..Len(transactions) :
        \/ transactions[i].recorder_grantor_v2__recorder_id = NullList
        \/ transactions[i].recorder_grantee_v2__recorder_id = NullList
        \/ "recorder_id" \notin DOMAIN transactions[i]

IsSaleMutantAmountOnly(txn) ==
    Truthy(txn.document_amount) /\ txn.document_amount > 0

\* txn.get('arms_length_code') and txn.get('document_amount') and txn['document_amount'] > 0
IsSale(txn) ==
    /\ Truthy(txn.arms_length_code)
    /\ Truthy(txn.document_amount)
    /\ txn.document_amount > 0

TransactionCategory(txn) ==
    IF IsSale(txn) THEN "SALE"
    ELSE IF txn.document_amount = 0 THEN "MORTGAGE"
    ELSE "OTHER"

\* property_key = None; if txn.get('tax_assessor_id'): property_key = lookup.get(...)
ResolvePropertyKey(txn, lookup) ==
    IF Truthy(txn.tax_assessor_id) THEN Get(lookup, txn.tax_assessor_id) ELSE NULL

FactRow(txn, lookup, key) ==
    [ transaction_key      |-> key,
      recorder_id          |-> txn.recorder_id,
      property_key         |-> ResolvePropertyKey(txn, lookup),
      transaction_date     |-> txn.document_recorded_date,
      document_amount      |-> txn.document_amount,
      arms_length_flag     |-> txn.arms_length_code,
      transaction_category |-> TransactionCategory(txn),
      is_sale              |-> IsSale(txn),
      tax_assessor_id      |-> txn.tax_assessor_id,
      grantor_count        |-> Len(txn.recorder_grantor_v2__recorder_id),
      grantee_count        |-> Len(txn.recorder_grantee_v2__recorder_id),
      has_multiple_parties |-> Len(txn.recorder_grantor_v2__recorder_id)
                               + Len(txn.recorder_grantee_v2__recorder_id) > 2 ]

BuildFactTransactionRows(transactions, lookup) ==
    [i \in 1..Len(transactions) |-> FactRow(transactions[i], lookup, i)]

\* transaction_key_lookup = {t['recorder_id']: t['transaction_key'] for t in fact}
TransactionKeyLookup(fact_rows) ==
    [id \in {fact_rows[i].recorder_id : i \in 1..Len(fact_rows)} |->
        fact_rows[CHOOSE i \in 1..Len(fact_rows) :
                /\ fact_rows[i].recorder_id = id
                /\ \A j \in (i+1)..Len(fact_rows) :
                        fact_rows[j].recorder_id # id].transaction_key]

(***************************************************************************)
(* build_bridge_transaction_party, build_bridge_property_owner             *)
(* (src/transform/bridges.py)                                              *)
(***************************************************************************)
\* build_bridge_transaction_party raises: KeyError on txn["recorder_id"] of a
\* record without that key, TypeError on enumerate(None) when a transaction that
\* resolves has a null embedded party list.
BridgeTransactionPartyRaises(transactions, lookup) ==
    \E i \in 1..Len(transactions) :
        \/ "recorder_id" \notin DOMAIN transactions[i]
        \/ /\ Truthy(Get(lookup, transactions[i].recorder_id))
           /\ \/ transactions[i].recorder_grantor_v2__recorder_id = NullList
              \/ transactions[i].recorder_grantee_v2__recorder_id = NullList

PartyRows(parties, role, transaction_key) ==
    [seq \in 1..Len(parties) |->
        [ transaction_key |-> transaction_key,
          entity_key      |-> NULL,
          party_role      |-> role,
          party_sequence  |-> seq,
          party_name_raw  |-> parties[seq].name,
          is_resolved     |-> FALSE ]]

TransactionPartyRowsMutantGranteesFirst(txn, lookup) ==
    LET transaction_key == Get(lookup, txn.recorder_id)
    IN  IF ~Truthy(transaction_key) THEN <<>>
        ELSE PartyRows(txn.recorder_grantee_v2__recorder_id, "grantee", transaction_key)
             \o PartyRows(txn.recorder_grantor_v2__recorder_id, "grantor", transaction_key)

\* The rows of one transaction: grantors, then grantees; none when the
\* recorder_id does not resolve.
TransactionPartyRows(txn, lookup) ==
    LET transaction_key == Get(lookup, txn.recorder_id)
    IN  IF ~Truthy(transaction_key) THEN <<>>
        ELSE PartyRows(txn.recorder_grantor_v2__recorder_id, "grantor", transaction_key)
             \o PartyRows(txn.recorder_grantee_v2__recorder_id, "grantee", transaction_key)

BuildBridgeTransactionPartyRows(transactions, lookup) ==
    WithKeys(Flatten([i \in 1..Len(transactions) |->
                        TransactionPartyRows(transactions[i], lookup)]),
             "bridge_key")

\* owners_by_property: records with a tax_assessor_id and an owner_id, grouped
LinkedOwners(entities) ==
    SelectSeq(entities,
              LAMBDA e : Truthy(e.tax_assessor_id) /\ OwnerIdPresent(e.owner_id))

PropertyOwnerRowsMutantKeepUnresolved(owners, property_key, entity_lookup) ==
    IF ~Truthy(property_key) THEN <<>>
    ELSE [seq \in 1..Len(owners) |->
            [ property_key       |-> property_key,
              entity_key         |-> Get(entity_lookup, owners[seq].owner_id),
              ownership_sequence |-> seq,
              valid_from         |-> DefaultValidFrom,
              valid_to           |-> owners[seq].last_seen_date,
              is_current         |-> TRUE ]]

\* The rows of one property: its owners numbered in input order, the owners
\* that do not resolve left out.
PropertyOwnerRows(owners, property_key, entity_lookup) ==
    IF ~Truthy(property_key) THEN <<>>
    ELSE Flatten([seq \in 1..Len(owners) |->
            LET entity_key == Get(entity_lookup, owners[seq].owner_id)
            IN  IF ~Truthy(entity_key) THEN <<>>
                ELSE << [ property_key       |-> property_key,
                          entity_key         |-> entity_key,
                          ownership_sequence |-> seq,
                          valid_from         |-> DefaultValidFrom,
                          valid_to           |-> owners[seq].last_seen_date,
                          is_current         |-> TRUE ] >>])

BuildBridgePropertyOwnerRows(entities, property_lookup, entity_lookup) ==
    LET linked == LinkedOwners(entities)
        tax_ids == OrderedKeys([i \in 1..Len(linked) |-> linked[i].tax_assessor_id])
    IN  WithKeys(
            Flatten([k \in 1..Len(tax_ids) |->
                PropertyOwnerRows(
                    SelectSeq(linked, LAMBDA e : e.tax_assessor_id = tax_ids[k]),
                    Get(property_lookup, tax_ids[k]),
                    entity_lookup)]),
            "bridge_key")

(***************************************************************************)
(* dq_check (src/validation/data_quality.py) and add_check                 *)
(* (src/validation/core.py): the same code twice.                          *)
(*                                                                         *)
(* pct = (passed / total * 100) if total > 0 else 0 is computed in IEEE-754*)
(* doubles.  Against an integer limit the double differs from the exact    *)
(* quotient only where 100*passed/total is itself an integer and the       *)
(* double lands just below it.  RoundsBelow lists those pairs with         *)
(* passed <= total <= 130 (e.g. 29 / 50 * 100 = 57.99999999999999).        *)
(***************************************************************************)
DefaultThreshold == 100

WarnBand == 15

RoundsBelow == { <<29, 50>>, <<29, 100>>, <<57, 100>>, <<58, 100>> }

\* pct >= limit
PctAtLeast(passed, total, limit) ==
    IF total > 0
    THEN \/ passed * 100 > limit * total
         \/ passed * 100 = limit * total /\ <<passed, total>> \notin RoundsBelow
    ELSE 0 >= limit

Status(passed, total, threshold) ==
    IF PctAtLeast(passed, total, threshold) THEN "PASS"
    ELSE IF PctAtLeast(passed, total, threshold - WarnBand) THEN "WARN"
    ELSE "FAIL"

\* The record dq_check / add_check appends to report.checks.
Check(category, check_name, passed, total, threshold) ==
    [ category  |-> category,
      check     |-> check_name,
      status    |-> Status(passed, total, threshold),
      passed    |-> passed,
      total     |-> total ]

Stat(category, metric) == [ category |-> category, metric |-> metric ]

\* DQReport's derived counts
Passed(report)   == CountSeq(report.checks, {c \in Range(report.checks) : c.status = "PASS"})
Failed(report)   == CountSeq(report.checks, {c \in Range(report.checks) : c.status = "FAIL"})
Warnings(report) == CountSeq(report.checks, {c \in Range(report.checks) : c.status = "WARN"})
Total(report)    == Len(report.checks)

EmptyReport == [ checks |-> <<>>, statistics |-> <<>> ]

(***************************************************************************)
(* validate_data_quality  (src/validation/data_quality.py)                 *)
(***************************************************************************)
MfCodes == {1104, 1105, 1106, 1107, 1108, 1110, 1112}

When(cond, checks) == IF cond THEN checks ELSE <<>>

Distinct(values) == Cardinality(values)

RequiredFieldChecks(dp, de, ft, btp) ==
       When(Len(dp) > 0,
            << Check("REQUIRED_FIELD", "dim_property.tax_assessor_id NOT NULL",
                     CountSeq(dp, {p \in Range(dp) : Truthy(p.tax_assessor_id)}), Len(dp),
                     DefaultThreshold),
               Check("REQUIRED_FIELD", "dim_property.valid_from NOT NULL",
                     CountSeq(dp, {p \in Range(dp) : Truthy(p.valid_from)}), Len(dp),
                     DefaultThreshold) >>)
    \o When(Len(de) > 0,
            << Check("REQUIRED_FIELD", "dim_entity.canonical_entity_id NOT NULL",
                     CountSeq(de, {e \in Range(de) : OwnerIdPresent(e.canonical_entity_id)}),
                     Len(de), DefaultThreshold),
               Check("REQUIRED_FIELD", "dim_entity.canonical_entity_name NOT NULL",
                     CountSeq(de, {e \in Range(de) : Truthy(e.canonical_entity_name)}), Len(de),
                     DefaultThreshold) >>)
    \o When(Len(ft) > 0,
            << Check("REQUIRED_FIELD", "fact_transaction.recorder_id NOT NULL",
                     CountSeq(ft, {t \in Range(ft) : Truthy(t.recorder_id)}), Len(ft),
                     DefaultThreshold),
               Check("REQUIRED_FIELD", "fact_transaction.transaction_date NOT NULL",
                     CountSeq(ft, {t \in Range(ft) : Truthy(t.transaction_date)}), Len(ft),
                     DefaultThreshold) >>)
    \o When(Len(btp) > 0,
            << Check("REQUIRED_FIELD", "bridge_transaction_party.party_name_raw NOT NULL",
                     CountSeq(btp, {b \in Range(btp) : Truthy(b.party_name_raw)}), Len(btp),
                     DefaultThreshold) >>)

UniquenessChecks(dp, de, ft) ==
       When(Len(dp) > 0,
            << Check("UNIQUENESS", "dim_property.property_key is unique",
                     Distinct({p.property_key : p \in Range(dp)}), Len(dp), DefaultThreshold),
               Check("UNIQUENESS", "dim_property (tax_assessor_id, valid_from) is unique",
                     Distinct({<<p.tax_assessor_id, p.valid_from>> : p \in Range(dp)}),
                     Len(dp), DefaultThreshold) >>)
    \o When(Len(de) > 0,
            << Check("UNIQUENESS", "dim_entity.entity_key is unique",
                     Distinct({e.entity_key : e \in Range(de)}), Len(de), DefaultThreshold) >>)
    \o When(Len(ft) > 0,
            << Check("UNIQUENESS", "fact_transaction.transaction_key is unique",
                     Distinct({t.transaction_key : t \in Range(ft)}), Len(ft),
                     DefaultThreshold),
               Check("UNIQUENESS", "fact_transaction.recorder_id is unique",
                     Distinct({t.recorder_id : t \in Range(ft)}), Len(ft),
                     DefaultThreshold) >>)

\* fact_transaction.property_key -> dim_property, over the rows with a property_key
FactPropertyCheck(dp, ft) ==
    LET valid_property_keys == {dp[i].property_key : i \in 1..Len(dp)}
        txns_with_prop_key  == SelectSeq(ft, LAMBDA t : Truthy(t.property_key))
        valid_fk == CountSeq(txns_with_prop_key, {t \in Range(txns_with_prop_key) : t.property_key \in valid_property_keys})
    IN  << Check("REFERENTIAL_INTEGRITY",
                 "fact_transaction.property_key -> dim_property",
                 valid_fk, Len(txns_with_prop_key), DefaultThreshold) >>

ReferentialIntegrityChecks(dp, de, ft, btp, bpo) ==
    LET valid_property_keys == {dp[i].property_key : i \in 1..Len(dp)}
        valid_entity_keys   == {de[i].entity_key : i \in 1..Len(de)}
        valid_txn_keys      == {ft[i].transaction_key : i \in 1..Len(ft)}
    IN     When(Len(ft) > 0, FactPropertyCheck(dp, ft))
        \o When(Len(btp) > 0,
                << Check("REFERENTIAL_INTEGRITY",
                         "bridge_transaction_party.transaction_key -> fact_transaction",
                         CountSeq(btp, {b \in Range(btp) : b.transaction_key \in valid_txn_keys}),
                         Len(btp), DefaultThreshold) >>)
        \o When(Len(bpo) > 0,
                << Check("REFERENTIAL_INTEGRITY",
                         "bridge_property_owner.property_key -> dim_property",
                         CountSeq(bpo, {b \in Range(bpo) : b.property_key \in valid_property_keys}),
                         Len(bpo), DefaultThreshold),
                   Check("REFERENTIAL_INTEGRITY",
                         "bridge_property_owner.entity_key -> dim_entity",
                         CountSeq(bpo, {b \in Range(bpo) : b.entity_key \in valid_entity_keys}),
                         Len(bpo), DefaultThreshold) >>)

\* Bridge counts match fact aggregates: the grantor role only
PartyCountChecks(ft, btp) ==
    LET bridge_grantor == CountSeq(btp, {b \in Range(btp) : b.party_role = "grantor"})
        fact_grantor   == SumSeq([i \in 1..Len(ft) |-> ft[i].grantor_count])
        matches        == bridge_grantor = fact_grantor
    IN  << Check("CONSISTENCY", "bridge grantor count = fact.grantor_count sum",
                 IF matches THEN fact_grantor ELSE 0,
                 IF fact_grantor > 0 THEN fact_grantor ELSE 1,
                 DefaultThreshold) >>

ConsistencyChecks(dp, ft, btp, range) ==
    LET current_props  == CountSeq(dp, {p \in Range(dp) : p.is_current})
        unique_current == Cardinality({dp[i].tax_assessor_id :
                                        i \in {j \in 1..Len(dp) : dp[j].is_current}})
        txn_dates == SelectSeq([i \in 1..Len(ft) |-> ft[i].transaction_date],
                               LAMBDA d : Truthy(d))
    IN     When(Len(dp) > 0,
                << Check("CONSISTENCY", "dim_property: 1 current row per tax_assessor_id",
                         unique_current,
                         IF current_props > 0 THEN current_props ELSE 1,
                         DefaultThreshold) >>)
        \o When(Len(ft) > 0 /\ Len(btp) > 0, PartyCountChecks(ft, btp))
        \o When(/\ Len(ft) > 0 /\ Truthy(range.start_date) /\ Truthy(range.end_date)
                /\ Len(txn_dates) > 0,
                << Check("CONSISTENCY", "Transactions within date range",
                         CountSeq(txn_dates, {d \in Range(txn_dates) : range.start_date <= d /\ d <= range.end_date}),
                         Len(txn_dates), DefaultThreshold) >>)

BusinessLogicChecks(dp, ft) ==
    LET sales == SelectSeq(ft, LAMBDA t : t.is_sale)
    IN     When(Len(ft) > 0,
                   When(Len(sales) > 0,
                        << Check("BUSINESS_LOGIC", "Sales have document_amount > 0",
                                 CountSeq(sales, {t \in Range(sales) : Truthy(t.document_amount)
                                                            /\ t.document_amount > 0}),
                                 Len(sales), DefaultThreshold) >>)
                \o << Check("BUSINESS_LOGIC", "Transactions have at least one party",
                            CountSeq(ft, {t \in Range(ft) : t.grantor_count > 0
                                                    \/ t.grantee_count > 0}),
                            Len(ft), 95) >>)
        \o When(Len(dp) > 0,
                << Check("BUSINESS_LOGIC", "Properties have valid MF use codes",
                         CountSeq(dp, {p \in Range(dp) : p.property_use_code \in MfCodes}),
                         Len(dp), 95) >>)

Statistics(dp, ft) ==
       When(Len(dp) > 0, << Stat("COMPLETENESS", "dim_property.property_address") >>)
    \o When(Len(ft) > 0,
            << Stat("CARDINALITY", "Transactions with 2+ grantors"),
               Stat("CARDINALITY", "Transactions with 2+ grantees") >>
            \o LET cats == OrderedKeys([i \in 1..Len(ft) |-> ft[i].transaction_category])
               IN  [k \in 1..Len(cats) |-> Stat("TRANSACTION_TYPE", cats[k])])

\* The report validate_data_quality returns.
ValidateDataQuality(dp, de, dei, ft, btp, bpo, range) ==
    [ checks     |->    RequiredFieldChecks(dp, de, ft, btp)
                     \o UniquenessChecks(dp, de, ft)
                     \o ReferentialIntegrityChecks(dp, de, ft, btp, bpo)
                     \o ConsistencyChecks(dp, ft, btp, range)
                     \o BusinessLogicChecks(dp, ft),
      statistics |-> Statistics(dp, ft) ]

(***************************************************************************)
(* daily_ownership_flow  (src/flows/daily_ownership.py)                    *)
(*                                                                         *)
(* The flow is sequential: each transform task materialises its output     *)
(* before the next one starts.  pc names the next task to run.  A builder  *)
(* that raises ends the run: no handler catches the exception (pc =        *)
(* "raised").                                                              *)
(***************************************************************************)
BuildDimProperty ==
    /\ pc = "build_dim_property"
    /\ IF DimPropertyRaises(properties_raw, property_history_raw)
       THEN /\ pc' = "raised"
            /\ UNCHANGED <<dim_property, property_key_lookup>>
       ELSE /\ dim_property' = BuildDimPropertyRows(properties_raw, property_history_raw)
            /\ property_key_lookup' = PropertyKeyLookup(dim_property')
            /\ pc' = "build_dim_entity"
    /\ UNCHANGED <<rawVars, dim_entity, dim_entity_identifier, entity_key_lookup,
                   factVars, brVars, date_range, dq_report, outVars, check_args, auxVars, opsVars>>

BuildDimEntity ==
    /\ pc = "build_dim_entity"
    /\ dim_entity' = BuildDimEntityRows(entities_raw)
    /\ dim_entity_identifier' = BuildDimEntityIdentifierRows(dim_entity')
    /\ entity_key_lookup' = EntityKeyLookup(dim_entity')
    /\ pc' = "build_fact_transaction"
    /\ UNCHANGED <<rawVars, dim_property, property_key_lookup, factVars, brVars,
                   date_range, dq_report, outVars, check_args, auxVars, opsVars>>

BuildFactTransaction ==
    /\ pc = "build_fact_transaction"
    /\ IF FactTransactionRaises(transactions_raw)
       THEN /\ pc' = "raised"
            /\ UNCHANGED factVars
       ELSE /\ fact_transaction' =
                    BuildFactTransactionRows(transactions_raw, property_key_lookup)
            /\ transaction_key_lookup' = TransactionKeyLookup(fact_transaction')
            /\ pc' = "build_bridge_transaction_party"
    /\ UNCHANGED <<rawVars, dimVars, brVars, date_range, dq_report, outVars, check_args, auxVars, opsVars>>

BuildBridgeTransactionParty ==
    /\ pc = "build_bridge_transaction_party"
    /\ IF BridgeTransactionPartyRaises(transactions_raw, transaction_key_lookup)
       THEN /\ pc' = "raised"
            /\ UNCHANGED bridge_transaction_party
       ELSE /\ bridge_transaction_party' =
                    BuildBridgeTransactionPartyRows(transactions_raw,
                                                    transaction_key_lookup)
            /\ pc' = "build_bridge_property_owner"
    /\ UNCHANGED <<rawVars, dimVars, factVars, bridge_property_owner, date_range,
                   dq_report, outVars, check_args, auxVars, opsVars>>

BuildBridgePropertyOwner ==
    /\ pc = "build_bridge_property_owner"
    /\ bridge_property_owner' =
            BuildBridgePropertyOwnerRows(entities_raw, property_key_lookup,
                                         entity_key_lookup)
    /\ pc' = "validate"
    /\ UNCHANGED <<rawVars, dimVars, factVars, bridge_transaction_party, date_range,
                   dq_report, outVars, check_args, auxVars, opsVars>>

Validate ==
    /\ pc = "validate"
    /\ dq_report' = ValidateDataQuality(dim_property, dim_entity, dim_entity_identifier,
                                        fact_transaction, bridge_transaction_party,
                                        bridge_property_owner, date_range)
    /\ pc' = "load"
    /\ UNCHANGED <<rawVars, dimVars, factVars, brVars, date_range, outVars, check_args, auxVars, opsVars>>

LoadSuppressedMutantAnyNonPass(report) == Failed(report) + Warnings(report) > 0

\* if dq_report.failed > 0
LoadSuppressed(report) == Failed(report) > 0

\* PHASE 4: send_dq_alert and skip, or load_to_supabase
Load ==
    /\ pc = "load"
    /\ IF LoadSuppressed(dq_report)
       THEN /\ events' = Append(events, "nedl.dq.failure")
            /\ load_result' = "skipped"
            /\ UNCHANGED load_calls
       ELSE /\ load_calls' = load_calls + 1
            /\ load_result' = "loaded"
            /\ UNCHANGED events
    /\ pc' = "done"
    /\ UNCHANGED <<rawVars, dimVars, factVars, brVars, date_range, dq_report, check_args, auxVars, opsVars>>

Next ==
    \/ BuildDimProperty
    \/ BuildDimEntity
    \/ BuildFactTransaction
    \/ BuildBridgeTransactionParty
    \/ BuildBridgePropertyOwner
    \/ Validate
    \/ Load

(***************************************************************************)
(* validate_flow  (src/flows/validate.py): the DQ engine over whatever the *)
(* analytics tables hold, without date bounds.                             *)
(***************************************************************************)
ValidateFlow ==
    /\ pc = "validate_flow"
    /\ dq_report' = ValidateDataQuality(dim_property, dim_entity, dim_entity_identifier,
                                        fact_transaction, bridge_transaction_party,
                                        bridge_property_owner, date_range)
    /\ events' = Append(events, IF Failed(dq_report') > 0 THEN "nedl.dq.failure"
                                ELSE "nedl.dq.success")
    /\ pc' = "done"
    /\ UNCHANGED <<rawVars, dimVars, factVars, brVars, date_range, load_calls,
                   load_result, check_args, auxVars, opsVars>>

NextDQ == ValidateFlow

(***************************************************************************)
(* One call of dq_check / add_check on an empty report.                    *)
(***************************************************************************)
DqCheck ==
    /\ pc = "dq_check"
    /\ dq_report' = [dq_report EXCEPT !.checks =
            Append(@, Check("CATEGORY", "check", check_args.passed, check_args.total,
                            check_args.threshold))]
    /\ pc' = "done"
    /\ UNCHANGED <<rawVars, dimVars, factVars, brVars, date_range, outVars, check_args, auxVars, opsVars>>

AddCheck ==
    /\ pc = "add_check"
    /\ dq_report' = [dq_report EXCEPT !.checks =
            Append(@, Check("CATEGORY", "check", check_args.passed, check_args.total,
                            check_args.threshold))]
    /\ pc' = "done"
    /\ UNCHANGED <<rawVars, dimVars, factVars, brVars, date_range, outVars, check_args, auxVars, opsVars>>

NextCheck == DqCheck \/ AddCheck

NextProperty == BuildDimProperty

NextBridges == BuildBridgeTransactionParty \/ BuildBridgePropertyOwner

(***************************************************************************)
(* Raw layer: flatten_for_load (src/raw/cherre_transactions.py) and        *)
(* extract_from_transactions (src/raw/cherre_grantors.py,                  *)
(* src/raw/cherre_grantees.py), in the order extract_flow calls them.      *)
(***************************************************************************)
\* k.startswith("recorder_g"), over the fields of FIELDS_WITH_PARTIES
StartsWithRecorderG(k) ==
    k \in {"recorder_grantor_v2__recorder_id", "recorder_grantee_v2__recorder_id"}

FlattenForLoadMutantOneCount(transactions) ==
    [i \in 1..Len(transactions) |->
        LET txn == transactions[i]
        IN  [k \in {f \in DOMAIN txn : ~StartsWithRecorderG(f)} |-> txn[k]]
            @@ [ grantor_count |-> Len(txn.recorder_grantor_v2__recorder_id),
                 grantee_count |-> Len(txn.recorder_grantor_v2__recorder_id) ]]

FlattenForLoad(transactions) ==
    [i \in 1..Len(transactions) |->
        LET txn == transactions[i]
        IN  [k \in {f \in DOMAIN txn : ~StartsWithRecorderG(f)} |-> txn[k]]
            @@ [ grantor_count |-> Len(txn.recorder_grantor_v2__recorder_id),
                 grantee_count |-> Len(txn.recorder_grantee_v2__recorder_id) ]]

\* The party rows of one embedded list, each with the transaction's recorder_id
ExtractFromTransactions(transactions, nested_field) ==
    Flatten([i \in 1..Len(transactions) |->
        [k \in 1..Len(transactions[i][nested_field]) |->
            [ recorder_id |-> transactions[i].recorder_id,
              name        |-> transactions[i][nested_field][k].name ]]])

FlattenTransactions ==
    /\ pc = "flatten_for_load"
    /\ raw_tables' = [raw_tables EXCEPT !.transactions = FlattenForLoad(transactions_raw)]
    /\ pc' = "extract_grantors"
    /\ UNCHANGED <<rawVars, dimVars, factVars, brVars, date_range, dq_report, outVars,
                   check_args, first_run, opsVars>>

ExtractGrantors ==
    /\ pc = "extract_grantors"
    /\ raw_tables' = [raw_tables EXCEPT !.grantors =
            ExtractFromTransactions(transactions_raw, "recorder_grantor_v2__recorder_id")]
    /\ pc' = "extract_grantees"
    /\ UNCHANGED <<rawVars, dimVars, factVars, brVars, date_range, dq_report, outVars,
                   check_args, first_run, opsVars>>

ExtractGrantees ==
    /\ pc = "extract_grantees"
    /\ raw_tables' = [raw_tables EXCEPT !.grantees =
            ExtractFromTransactions(transactions_raw, "recorder_grantee_v2__recorder_id")]
    /\ pc' = "done"
    /\ UNCHANGED <<rawVars, dimVars, factVars, brVars, date_range, dq_report, outVars,
                   check_args, first_run, opsVars>>

NextRaw == FlattenTransactions \/ ExtractGrantors \/ ExtractGrantees

(***************************************************************************)
(* build_dim_entity called a second time on the same entities_raw; the     *)
(* first call's output is kept in first_run.                               *)
(***************************************************************************)
BuildDimEntityAgain ==
    /\ pc = "build_fact_transaction"
    /\ first_run' = [ dim_entity            |-> dim_entity,
                      dim_entity_identifier |-> dim_entity_identifier ]
    /\ dim_entity' = BuildDimEntityRows(entities_raw)
    /\ dim_entity_identifier' = BuildDimEntityIdentifierRows(dim_entity')
    /\ entity_key_lookup' = EntityKeyLookup(dim_entity')
    /\ pc' = "done"
    /\ UNCHANGED <<rawVars, dim_property, property_key_lookup, factVars, brVars,
                   date_range, dq_report, outVars, check_args, raw_tables, opsVars>>

NextEntity == BuildDimEntity \/ BuildDimEntityAgain

(***************************************************************************)
(* Inputs.  The records carry the fields the builders and the DQ engine    *)
(* read; the field lists are those of the GraphQL queries.                 *)
(***************************************************************************)
MaxProps     == 2      \* property records per run
MaxHist      == 3      \* history records per run
MaxValueHist == 2      \* history records where the numeric values vary
MaxTxns      == 2      \* transactions per run
MaxFlowTxns  == 5      \* transactions per run of the whole flow
MaxDqRows    == 2      \* rows per table handed to validate_flow
MaxCount     == 100    \* passed and total of one dq_check call
MaxOwners    == 2      \* owner records per run

SnapshotYears == {2022, 2023, 2024}
HistoryPks    == {1, 2}
Thresholds    == {58, 73, 95, 100}

Property(id, code, building, lot, assessed) ==
    [ tax_assessor_id                |-> id,
      property_use_standardized_code |-> code,
      address                        |-> 1,
      building_sq_ft                 |-> building,
      lot_size_sq_ft                 |-> lot,
      assessed_value_total           |-> assessed ]

History(id, year, pk, building, lot, assessed) ==
    [ tax_assessor_id                   |-> id,
      assessor_snap_shot_year           |-> year,
      cherre_tax_assessor_history_v2_pk |-> pk,
      building_sq_ft                    |-> building,
      lot_size_sq_ft                    |-> lot,
      assessed_value_total              |-> assessed ]

Party(name) == [ name |-> name ]

Transaction(recorder_id, tax_id, arms_length, amount, date, grantors, grantees) ==
    [ recorder_id                      |-> recorder_id,
      tax_assessor_id                  |-> tax_id,
      arms_length_code                 |-> arms_length,
      document_amount                  |-> amount,
      document_recorded_date           |-> date,
      recorder_grantor_v2__recorder_id |-> grantors,
      recorder_grantee_v2__recorder_id |-> grantees ]

Entity(owner_id, name, has_confidence, occurrences, last_seen, tax_id) ==
    [ owner_id          |-> owner_id,
      owner_name        |-> name,
      has_confidence    |-> has_confidence,
      occurrences_count |-> occurrences,
      last_seen_date    |-> last_seen,
      tax_assessor_id   |-> tax_id ]

\* start_date / end_date of the run; validate_flow passes none
FlowRange == [ start_date |-> 20250101, end_date |-> 20250131 ]
NoRange   == [ start_date |-> NULL, end_date |-> NULL ]

Unbuilt ==
    /\ dim_property = <<>> /\ property_key_lookup = EmptyDict
    /\ dim_entity = <<>> /\ dim_entity_identifier = <<>> /\ entity_key_lookup = EmptyDict
    /\ fact_transaction = <<>> /\ transaction_key_lookup = EmptyDict
    /\ bridge_transaction_party = <<>> /\ bridge_property_owner = <<>>

NoRawTables == [ transactions |-> <<>>, grantors |-> <<>>, grantees |-> <<>> ]
NoFirstRun  == [ dim_entity |-> <<>>, dim_entity_identifier |-> <<>> ]

\* Nothing loaded to the warehouse, no checkpoint, no backfill run, no query
EmptyCheckpoint == [ completed |-> <<>>, failed |-> <<>> ]
NoBackfill == [ run |-> 0, dry_run |-> FALSE, stop_on_error |-> FALSE,
                all_months |-> <<>>, loaded |-> EmptyCheckpoint, pending |-> <<>>,
                i |-> 0, results |-> <<>>, saves |-> 0, raised |-> FALSE,
                history |-> <<>> ]
NoCall == [ method |-> "none", month |-> NULL ]
NoClient == [ max_retries |-> 0, retry |-> 0, requests |-> 0, slept |-> 0,
              response |-> "none", result |-> "none" ]
NoAnalytics == [ dim_property |-> <<>>, dim_entity |-> <<>>, fact_transaction |-> <<>> ]

NoOps ==
    /\ analytics = NoAnalytics /\ runs = 0
    /\ checkpoint = EmptyCheckpoint /\ checkpoint_file = <<>> /\ call = NoCall
    /\ backfill = NoBackfill /\ client = NoClient

NoOutput ==
    /\ dq_report = EmptyReport
    /\ load_calls = 0 /\ load_result = "none" /\ events = <<>>
    /\ raw_tables = NoRawTables /\ first_run = NoFirstRun /\ NoOps
    /\ check_args = [ passed |-> 0, total |-> 0, threshold |-> DefaultThreshold ]

\* A plain multifamily property, and a history record whose content is keyed
\* by its primary key.
PlainProperty(id) == Property(id, 1104, 900, 5000, 500)
KeyedHistory(id, year, pk) == History(id, year, pk, 800 + pk, 4000 + pk, 100 * pk)

AcmeOwner == Entity(<<"ACME", "LLC">>, 1, 1, 3, NULL, 1)

(***************************************************************************)
(* Spec: one run of daily_ownership_flow.  Transaction i has recorder_id i,*)
(* is a sale in the date range, names property 1 or no property, and has   *)
(* one grantor and one grantee or no party at all.                         *)
(***************************************************************************)
FlowTransactions ==
    { [i \in 1..Len(c) |->
            Transaction(i, c[i][1], 1, 500, 20250105,
                        IF c[i][2] THEN << Party(1) >> ELSE <<>>,
                        IF c[i][2] THEN << Party(2) >> ELSE <<>>)]
      : c \in SeqUpTo({NULL, 1} \X BOOLEAN, MaxFlowTxns) }

FlowSources ==
    { << <<>>, <<>>, <<>> >>,
      << << PlainProperty(1) >>, << KeyedHistory(1, 2023, 1) >>, << AcmeOwner >> >>,
      << << Property(1, 9999, 900, 5000, 500) >>, <<>>, <<>> >>,
      << << PlainProperty(1) >>,
         << KeyedHistory(1, 2022, 1), KeyedHistory(1, 2023, 2) >>,
         << AcmeOwner, Entity(<<"BOLT">>, 2, NULL, 12, 20240601, 1) >> >> }

Init ==
    /\ pc = "build_dim_property"
    /\ \E src \in FlowSources :
            /\ properties_raw = src[1]
            /\ property_history_raw = src[2]
            /\ entities_raw = src[3]
    /\ transactions_raw \in FlowTransactions
    /\ date_range = FlowRange
    /\ Unbuilt /\ NoOutput

Spec == Init /\ [][Next]_vars

(***************************************************************************)
(* SpecProperty: build_dim_property over every list of property records    *)
(* and history records within the bounds.  Property 1 has records of three *)
(* years and two pks, property 2 of two years.                             *)
(***************************************************************************)
InitProperty ==
    /\ pc = "build_dim_property"
    /\ properties_raw \in SeqUpTo({PlainProperty(id) : id \in {1, 2}}, MaxProps)
    /\ property_history_raw \in
            SeqUpTo({KeyedHistory(1, year, pk) : year \in SnapshotYears, pk \in HistoryPks}
                        \cup {KeyedHistory(2, year, 1) : year \in {2022, 2023}},
                    MaxHist)
    /\ entities_raw = <<>> /\ transactions_raw = <<>>
    /\ date_range = FlowRange
    /\ Unbuilt /\ NoOutput

SpecProperty == InitProperty /\ [][NextProperty]_vars

(***************************************************************************)
(* SpecPropertyValues: build_dim_property for one property whose numeric   *)
(* fields, and those of its history records, may be absent or zero.        *)
(***************************************************************************)
InitPropertyValues ==
    /\ pc = "build_dim_property"
    /\ properties_raw \in
            { << Property(1, 1104, building, lot, assessed) >> :
                building \in {NULL, 900}, lot \in {NULL, 5000}, assessed \in {NULL, 500} }
    /\ property_history_raw \in
            SeqUpTo({History(1, year, 1, building, lot, assessed) :
                        year \in {2022, 2023}, building \in {NULL, 0, 800},
                        lot \in {NULL, 4000}, assessed \in {NULL, 100}},
                    MaxValueHist)
    /\ entities_raw = <<>> /\ transactions_raw = <<>>
    /\ date_range = FlowRange
    /\ Unbuilt /\ NoOutput

SpecPropertyValues == InitPropertyValues /\ [][NextProperty]_vars

(***************************************************************************)
(* SpecFact: a run whose transactions name tracked properties (1, 2), an   *)
(* untracked one (3) or none; property 1 may have two years of history.    *)
(***************************************************************************)
InitFact ==
    /\ pc = "build_dim_property"
    /\ properties_raw \in SeqUpTo({PlainProperty(id) : id \in {1, 2}}, MaxProps)
    /\ property_history_raw \in
            { <<>>, << KeyedHistory(1, 2022, 1), KeyedHistory(1, 2023, 2) >> }
    /\ entities_raw = <<>>
    /\ transactions_raw \in
            { [i \in 1..Len(c) |->
                    Transaction(i, c[i], 1, 500, 20250105, << Party(1) >>, << Party(2) >>)]
              : c \in SeqUpTo({NULL, 1, 2, 3}, MaxTxns) }
    /\ date_range = FlowRange
    /\ Unbuilt /\ NoOutput

SpecFact == InitFact /\ [][Next]_vars

(***************************************************************************)
(* SpecClassify: a run whose transactions vary in arms-length code and     *)
(* document amount.                                                        *)
(***************************************************************************)
InitClassify ==
    /\ pc = "build_dim_property"
    /\ properties_raw = << PlainProperty(1) >>
    /\ property_history_raw = <<>>
    /\ entities_raw = <<>>
    /\ transactions_raw \in
            { [i \in 1..Len(c) |->
                    Transaction(i, 1, c[i][1], c[i][2], 20250105,
                                << Party(1) >>, << Party(2) >>)]
              : c \in SeqUpTo({NULL, 1, 2} \X {NULL, 0, 500, -5}, MaxTxns) }
    /\ date_range = FlowRange
    /\ Unbuilt /\ NoOutput

SpecClassify == InitClassify /\ [][Next]_vars

(***************************************************************************)
(* SpecDQ: validate_flow over analytics tables of any content.             *)
(***************************************************************************)
DqPropertyRow(key, tax_id, current) ==
    [ property_key |-> key, tax_assessor_id |-> tax_id, property_use_code |-> 1104,
      property_address |-> 1, building_sqft |-> 900, land_sqft |-> 5000,
      assessed_value |-> 500, valid_from |-> DefaultValidFrom, valid_to |-> NULL,
      is_current |-> current ]

DqFactRow(key, property_key, grantors, grantees) ==
    [ transaction_key |-> key, recorder_id |-> key, property_key |-> property_key,
      transaction_date |-> 20250105, document_amount |-> 500, arms_length_flag |-> 1,
      transaction_category |-> "SALE", is_sale |-> TRUE, tax_assessor_id |-> NULL,
      grantor_count |-> grantors, grantee_count |-> grantees,
      has_multiple_parties |-> grantors + grantees > 2 ]

DqPartyRow(key, transaction_key, role) ==
    [ bridge_key |-> key, transaction_key |-> transaction_key, entity_key |-> NULL,
      party_role |-> role, party_sequence |-> 1, party_name_raw |-> 1,
      is_resolved |-> FALSE ]

InitDQ ==
    /\ pc = "validate_flow"
    /\ properties_raw = <<>> /\ property_history_raw = <<>>
    /\ entities_raw = <<>> /\ transactions_raw = <<>>
    /\ dim_property \in
            { [i \in 1..Len(c) |-> DqPropertyRow(i, 1, c[i])] : c \in SeqUpTo(BOOLEAN, MaxDqRows) }
    /\ fact_transaction \in
            { [i \in 1..Len(c) |-> DqFactRow(i, c[i][1], c[i][2], c[i][3])]
              : c \in SeqUpTo({NULL, 1, 3} \X {0, 1} \X {0, 1}, MaxDqRows) }
    /\ bridge_transaction_party \in
            { [i \in 1..Len(c) |-> DqPartyRow(i, 1, c[i])]
              : c \in SeqUpTo({"grantor", "grantee"}, MaxDqRows) }
    /\ property_key_lookup = EmptyDict
    /\ dim_entity = <<>> /\ dim_entity_identifier = <<>> /\ entity_key_lookup = EmptyDict
    /\ transaction_key_lookup = EmptyDict
    /\ bridge_property_owner = <<>>
    /\ date_range = NoRange
    /\ NoOutput

SpecDQ == InitDQ /\ [][NextDQ]_vars

(***************************************************************************)
(* SpecCheck: one dq_check or add_check call for every passed, total and   *)
(* threshold within the bounds.                                            *)
(***************************************************************************)
InitCheck ==
    /\ pc \in {"dq_check", "add_check"}
    /\ check_args \in [ passed : 0..MaxCount, total : 0..MaxCount, threshold : Thresholds ]
    /\ properties_raw = <<>> /\ property_history_raw = <<>>
    /\ entities_raw = <<>> /\ transactions_raw = <<>>
    /\ date_range = NoRange
    /\ Unbuilt
    /\ dq_report = EmptyReport
    /\ load_calls = 0 /\ load_result = "none" /\ events = <<>>
    /\ raw_tables = NoRawTables /\ first_run = NoFirstRun /\ NoOps

SpecCheck == InitCheck /\ [][NextCheck]_vars

(***************************************************************************)
(* SpecParties: a run whose transactions may repeat a recorder_id and      *)
(* embed no or two grantors, and whose owner records name tracked          *)
(* properties (1, 2), an untracked one (3), or carry no owner_id.          *)
(***************************************************************************)
BoltOwner    == Entity(<<"BOLT">>, 2, NULL, 12, 20240601, 2)
AbsentOwner  == Entity(<<"ACME", "LLC">>, 1, 1, 3, NULL, 3)
UnnamedOwner == Entity(NoOwnerId, NULL, NULL, NULL, NULL, 1)

InitParties ==
    /\ pc = "build_dim_property"
    /\ \E src \in { << <<>>, <<>> >>,
                    << << PlainProperty(1), PlainProperty(2) >>,
                       << KeyedHistory(1, 2022, 1), KeyedHistory(1, 2023, 2) >> >> } :
            /\ properties_raw = src[1]
            /\ property_history_raw = src[2]
    /\ entities_raw \in
            SeqUpTo({AcmeOwner, BoltOwner, AbsentOwner, UnnamedOwner}, MaxOwners)
    /\ transactions_raw \in
            { [i \in 1..Len(c) |->
                    Transaction(c[i][1], 1, 1, 500, 20250105,
                                IF c[i][2] THEN << Party(1), Party(2) >> ELSE <<>>,
                                << Party(3) >>)]
              : c \in SeqUpTo({1, 2} \X BOOLEAN, MaxTxns) }
    /\ date_range = FlowRange
    /\ Unbuilt /\ NoOutput

SpecParties == InitParties /\ [][Next]_vars

(***************************************************************************)
(* SpecBridges: the two bridge builders called with lookups that resolve   *)
(* any subset of the keys.  Either the transactions vary (recorder_id 3 is *)
(* never in the lookup) or the owner records do.                           *)
(***************************************************************************)
\* A lookup resolving the keys in resolved, key k to surrogate key base + k.
LookupOf(resolved, base) == [k \in resolved |-> base + k]

OwnerKeys == [id \in {<<"ACME", "LLC">>, <<"BOLT">>} |->
                IF id = <<"BOLT">> THEN 2 ELSE 1]

\* n embedded parties, named first, first + 1, ...
Parties(n, first) == [k \in 1..n |-> Party(first + k - 1)]

InitBridges ==
    /\ pc = "build_bridge_transaction_party"
    /\ properties_raw = <<>> /\ property_history_raw = <<>>
    /\ \/ /\ transactions_raw \in
                { [i \in 1..Len(c) |->
                        Transaction(c[i][1], 1, 1, 500, 20250105,
                                    Parties(c[i][2], 1), Parties(c[i][3], 3))]
                  : c \in SeqUpTo({1, 2, 3} \X {0, 1, 2} \X {0, 2}, MaxTxns) }
          /\ \E resolved \in SUBSET {1, 2} :
                transaction_key_lookup = LookupOf(resolved, 10)
          /\ entities_raw = <<>>
          /\ property_key_lookup = EmptyDict /\ entity_key_lookup = EmptyDict
       \/ /\ transactions_raw = <<>> /\ transaction_key_lookup = EmptyDict
          /\ entities_raw \in
                SeqUpTo({Entity(owner_id, 1, 1, 3, NULL, tax_id) :
                            owner_id \in {<<"ACME", "LLC">>, <<"BOLT">>, NoOwnerId},
                            tax_id \in {1, 2, NULL}},
                        MaxOwners)
          /\ \E resolved \in SUBSET {1, 2} :
                property_key_lookup = LookupOf(resolved, 20)
          /\ \E resolved \in SUBSET DOMAIN OwnerKeys :
                entity_key_lookup = [id \in resolved |-> OwnerKeys[id]]
    /\ dim_property = <<>> /\ dim_entity = <<>> /\ dim_entity_identifier = <<>>
    /\ fact_transaction = <<>>
    /\ bridge_transaction_party = <<>> /\ bridge_property_owner = <<>>
    /\ date_range = FlowRange
    /\ NoOutput

SpecBridges == InitBridges /\ [][NextBridges]_vars

(***************************************************************************)
(* SpecEntity: build_dim_entity, twice, on owner records.  The first       *)
(* record varies in every field build_dim_entity reads; the records after  *)
(* it are drawn from three fixed ones.                                     *)
(***************************************************************************)
InitEntity ==
    /\ pc = "build_dim_entity"
    /\ properties_raw = <<>> /\ property_history_raw = <<>> /\ transactions_raw = <<>>
    /\ \/ entities_raw = <<>>
       \/ \E owner_id \in {<<"ACME", "LLC">>, <<"BOLT">>, <<"", "LLC">>, NoOwnerId},
             has_confidence \in {NULL, 1},
             occurrences \in {NULL, 1, 2, 5, 10},
             last_seen \in {NULL, 20240601},
             others \in SeqUpTo({AcmeOwner, BoltOwner, UnnamedOwner}, MaxOwners) :
            entities_raw =
                << Entity(owner_id, 7, has_confidence, occurrences, last_seen, 1) >>
                \o others
    /\ date_range = FlowRange
    /\ Unbuilt /\ NoOutput

SpecEntity == InitEntity /\ [][NextEntity]_vars

(***************************************************************************)
(* SpecRaw: the raw layer flattening transactions with 0 to 2 embedded     *)
(* grantors and grantees; recorder_ids may repeat or be null.              *)
(***************************************************************************)
InitRaw ==
    /\ pc = "flatten_for_load"
    /\ properties_raw = <<>> /\ property_history_raw = <<>> /\ entities_raw = <<>>
    /\ transactions_raw \in
            { [i \in 1..Len(c) |->
                    Transaction(c[i][1], 1, 1, 500, 20250105,
                                Parties(c[i][2], 1), Parties(c[i][3], 3))]
              : c \in SeqUpTo({NULL, 1, 2} \X {0, 1, 2} \X {0, 1, 2}, MaxTxns) }
    /\ date_range = FlowRange
    /\ Unbuilt /\ NoOutput

SpecRaw == InitRaw /\ [][NextRaw]_vars

(***************************************************************************)
(* SpecMalformed: the builders on records with a missing key or a null     *)
(* value: a property or history record without tax_assessor_id, a history  *)
(* record without or with a null snapshot year, a transaction without      *)
(* recorder_id, with null recorder_id and tax_assessor_id, or with a null  *)
(* embedded party list.  Either the whole flow runs, or                    *)
(* build_bridge_transaction_party is called with a lookup resolving        *)
(* recorder_id 1.                                                          *)
(***************************************************************************)
\* The record r without key f
Without(r, f) == [k \in DOMAIN r \ {f} |-> r[k]]

MalformedTransactions ==
    SeqUpTo({ Transaction(1, 1, 1, 500, 20250105, << Party(1) >>, << Party(2) >>),
              Transaction(NULL, NULL, 1, 500, 20250105, << Party(1) >>, << Party(2) >>),
              Without(Transaction(1, 1, 1, 500, 20250105, << Party(1) >>, << Party(2) >>),
                      "recorder_id"),
              Transaction(1, 1, 1, 500, 20250105, NullList, << Party(2) >>),
              Transaction(2, 1, 1, 500, 20250105, << Party(1) >>, NullList) },
            MaxTxns)

InitMalformed ==
    /\ transactions_raw \in MalformedTransactions
    /\ entities_raw \in { <<>>, << UnnamedOwner >>, << AcmeOwner >> }
    /\ \/ /\ pc = "build_dim_property"
          /\ properties_raw \in
                { << PlainProperty(1) >>,
                  << Without(PlainProperty(1), "tax_assessor_id") >> }
          /\ property_history_raw \in
                { <<>>,
                  << KeyedHistory(1, 2023, 1) >>,
                  << Without(KeyedHistory(1, 2023, 1), "tax_assessor_id") >>,
                  << Without(KeyedHistory(1, 2023, 1), "assessor_snap_shot_year") >>,
                  << KeyedHistory(1, NULL, 1), KeyedHistory(1, 2023, 2) >> }
          /\ transaction_key_lookup = EmptyDict
       \/ /\ pc = "build_bridge_transaction_party"
          /\ properties_raw = <<>> /\ property_history_raw = <<>>
          /\ transaction_key_lookup = LookupOf({1}, 10)
    /\ dim_property = <<>> /\ property_key_lookup = EmptyDict
    /\ dim_entity = <<>> /\ dim_entity_identifier = <<>> /\ entity_key_lookup = EmptyDict
    /\ fact_transaction = <<>>
    /\ bridge_transaction_party = <<>> /\ bridge_property_owner = <<>>
    /\ date_range = FlowRange
    /\ NoOutput

SpecMalformed == InitMalformed /\ [][Next]_vars

(***************************************************************************)
(* Analytics layer (src/analytics, src/db.py): the transform-analytics     *)
(* flow reads the raw tables, rebuilds each table with keys counted from   *)
(* 1 and upserts it into the warehouse.  A warehouse table is the sequence *)
(* of its rows; names are integers whose tens digit is the normalized      *)
(* name (10 "ACME", 11 "Acme", 12 " acme ", 20 "BOLT").                    *)
(***************************************************************************)
\* name.upper().strip()
Normalized(name) == (name \div 10) * 10

\* f"cherre::{normalized_name}"
CanonicalEntityId(normalized_name) == <<"cherre", normalized_name>>

RECURSIVE LatestPerTaxId(_, _)
\* dim_property.read_source: the first record of each tax_assessor_id that no
\* later record beats on _extracted_at, in order of first occurrence
LatestPerTaxId(properties, tax_ids) ==
    IF tax_ids = <<>> THEN <<>>
    ELSE LET mine == SelectSeq(properties,
                        LAMBDA p : p.tax_assessor_id = Head(tax_ids))
             best == CHOOSE i \in 1..Len(mine) :
                        /\ \A j \in 1..Len(mine) : mine[j]._extracted_at <= mine[i]._extracted_at
                        /\ \A j \in 1..(i - 1) : mine[j]._extracted_at < mine[i]._extracted_at
         IN  <<mine[best]>> \o LatestPerTaxId(properties, Tail(tax_ids))

ReadSourceProperties(properties) ==
    LET kept == SelectSeq(properties, LAMBDA p : Truthy(p.tax_assessor_id))
    IN  LatestPerTaxId(kept, OrderedKeys([i \in 1..Len(kept) |-> kept[i].tax_assessor_id]))

\* analytics.dim_property.transform
AnalyticsDimPropertyRows(properties) ==
    [i \in 1..Len(properties) |->
        [ property_key    |-> i,
          tax_assessor_id |-> properties[i].tax_assessor_id,
          is_current      |-> TRUE ]]

\* analytics.dim_entity.transform: grantors then grantees with a name,
\* deduplicated on the normalized name, first occurrence kept
AnalyticsDimEntityRows(grantors, grantees) ==
    LET all_parties == SelectSeq(grantors \o grantees, LAMBDA g : Truthy(g.name))
        seen_names  == OrderedKeys([i \in 1..Len(all_parties) |->
                                        Normalized(all_parties[i].name)])
        First(n)    == all_parties[CHOOSE i \in 1..Len(all_parties) :
                            /\ Normalized(all_parties[i].name) = n
                            /\ \A j \in 1..(i - 1) : Normalized(all_parties[j].name) # n]
    IN  [i \in 1..Len(seen_names) |->
            [ entity_key            |-> i,
              canonical_entity_id   |-> CanonicalEntityId(seen_names[i]),
              canonical_entity_name |-> First(seen_names[i]).name ]]

\* analytics.fact_transaction.read_source: the lookup built from the
\* warehouse's dim_property rows; a later row of a tax id replaces an earlier
AnalyticsPropertyLookup(rows) ==
    [t \in {rows[i].tax_assessor_id : i \in {j \in 1..Len(rows) : Truthy(rows[j].tax_assessor_id)}} |->
        rows[CHOOSE i \in 1..Len(rows) :
                /\ rows[i].tax_assessor_id = t
                /\ \A j \in (i + 1)..Len(rows) : rows[j].tax_assessor_id # t].property_key]

\* analytics.fact_transaction.transform
AnalyticsFactRows(transactions, lookup) ==
    [i \in 1..Len(transactions) |->
        [ transaction_key |-> i,
          recorder_id     |-> transactions[i].recorder_id,
          property_key    |-> IF Truthy(transactions[i].tax_assessor_id)
                              THEN Get(lookup, transactions[i].tax_assessor_id)
                              ELSE NULL ]]

\* One record upserted: the row with the record's conflict-key value is
\* replaced in place, else the record is appended
UpsertOne(table, record, on_conflict) ==
    IF \E i \in 1..Len(table) : table[i][on_conflict] = record[on_conflict]
    THEN [i \in 1..Len(table) |->
            IF table[i][on_conflict] = record[on_conflict] THEN record ELSE table[i]]
    ELSE Append(table, record)

RECURSIVE UpsertBatch(_, _, _)
\* db.upsert_batch: client.table(..).upsert(batch, on_conflict=..)
UpsertBatch(table, records, on_conflict) ==
    IF records = <<>> THEN table
    ELSE UpsertBatch(UpsertOne(table, Head(records), on_conflict), Tail(records), on_conflict)

\* The statement is rejected when two records of the batch share the
\* conflict-key value (an upsert may not touch a row twice)
UpsertRejected(records, on_conflict) ==
    \E i, j \in 1..Len(records) : i < j /\ records[i][on_conflict] = records[j][on_conflict]

MaxRuns == 2           \* transform-analytics runs

RawProperty(tax_id, extracted_at) ==
    [ tax_assessor_id |-> tax_id, _extracted_at |-> extracted_at ]
RawParty(name) == [ name |-> name ]
RawTransaction(recorder_id, tax_id) ==
    [ recorder_id |-> recorder_id, tax_assessor_id |-> tax_id ]

RawPropertyReads ==
    SeqUpTo({RawProperty(t, x) : t \in {NULL, 1, 2}, x \in {1, 2}}, MaxProps)
RawPartyReads == SeqUpTo({RawParty(n) : n \in {NULL, 10, 11, 20}}, 2)
RawTransactionReads ==
    SeqUpTo({RawTransaction(r, t) : r \in {1, 2}, t \in {NULL, 1, 2}}, 2)

\* analytics.dim_property.build: read_source, transform, load
AnalyticsBuildDimProperty ==
    /\ pc = "dim_property.build"
    /\ \E properties \in RawPropertyReads :
        LET records == AnalyticsDimPropertyRows(ReadSourceProperties(properties))
        IN  analytics' = [analytics EXCEPT
                !.dim_property = UpsertBatch(@, records, "property_key")]
    /\ pc' = "dim_entity.build"
    /\ UNCHANGED <<rawVars, dimVars, factVars, brVars, date_range, dq_report, outVars,
                   check_args, auxVars, runs, cpVars, client>>

\* analytics.dim_entity.build
AnalyticsBuildDimEntity ==
    /\ pc = "dim_entity.build"
    /\ \E grantors \in RawPartyReads, grantees \in RawPartyReads :
        LET records == AnalyticsDimEntityRows(grantors, grantees)
        IN  analytics' = [analytics EXCEPT
                !.dim_entity = UpsertBatch(@, records, "entity_key")]
    /\ pc' = "fact_transaction.build"
    /\ UNCHANGED <<rawVars, dimVars, factVars, brVars, date_range, dq_report, outVars,
                   check_args, auxVars, runs, cpVars, client>>

\* analytics.fact_transaction.build; the flow returns and may be run again
AnalyticsBuildFactTransaction ==
    /\ pc = "fact_transaction.build"
    /\ \E transactions \in RawTransactionReads :
        LET records == AnalyticsFactRows(transactions,
                            AnalyticsPropertyLookup(analytics.dim_property))
        IN  IF UpsertRejected(records, "recorder_id")
            THEN pc' = "raised" /\ UNCHANGED analytics
            ELSE /\ analytics' = [analytics EXCEPT
                        !.fact_transaction = UpsertBatch(@, records, "recorder_id")]
                 /\ pc' = IF runs + 1 < MaxRuns THEN "dim_property.build" ELSE "done"
    /\ runs' = runs + 1
    /\ UNCHANGED <<rawVars, dimVars, factVars, brVars, date_range, dq_report, outVars,
                   check_args, auxVars, cpVars, client>>

NextAnalytics ==
    AnalyticsBuildDimProperty \/ AnalyticsBuildDimEntity \/ AnalyticsBuildFactTransaction

(***************************************************************************)
(* SpecWarehouse: MaxRuns runs of transform_analytics_flow against an      *)
(* initially empty warehouse; every build reads whatever the raw tables    *)
(* hold at that time, in whatever order read_table returns it.             *)
(***************************************************************************)
InitWarehouse ==
    /\ pc = "dim_property.build"
    /\ properties_raw = <<>> /\ property_history_raw = <<>> /\ entities_raw = <<>>
    /\ transactions_raw = <<>>
    /\ date_range = NoRange
    /\ Unbuilt /\ NoOutput

SpecWarehouse == InitWarehouse /\ [][NextAnalytics]_vars

(***************************************************************************)
(* Checkpoint (scripts/backfill.py).  A month key "YYYY-MM" is the integer *)
(* YYYYMM, which orders as the keys do; a list is a sequence.              *)
(***************************************************************************)
\* month in self.completed / month in self.failed
InList(list, month) == \E i \in 1..Len(list) : list[i] = month

\* list.remove(month): the first occurrence goes
ListRemove(list, month) ==
    LET first == CHOOSE i \in 1..Len(list) :
                    list[i] = month /\ \A j \in 1..(i - 1) : list[j] # month
    IN  SubSeq(list, 1, first - 1) \o SubSeq(list, first + 1, Len(list))

\* Checkpoint.is_done
IsDone(cp, month) == InList(cp.completed, month)

MarkCompleteMutantAlwaysAppend(cp, month) ==
    [ completed |-> Append(cp.completed, month),
      failed    |-> IF InList(cp.failed, month) THEN ListRemove(cp.failed, month)
                    ELSE cp.failed ]

\* Checkpoint.mark_complete
MarkComplete(cp, month) ==
    [ completed |-> IF ~InList(cp.completed, month) THEN Append(cp.completed, month)
                    ELSE cp.completed,
      failed    |-> IF InList(cp.failed, month) THEN ListRemove(cp.failed, month)
                    ELSE cp.failed ]

\* Checkpoint.mark_failed
MarkFailed(cp, month) ==
    [ completed |-> cp.completed,
      failed    |-> IF ~InList(cp.failed, month) THEN Append(cp.failed, month)
                    ELSE cp.failed ]

MaxMonths == 3         \* months of the backfill range

\* current.replace(...): December is followed by January of the next year
NextMonth(current) == IF current % 100 = 12 THEN current + 89 ELSE current + 1

RECURSIVE GenerateMonths(_, _)
\* generate_months(start, end): while current <= end_dt
GenerateMonths(current, end) ==
    IF current <= end THEN <<current>> \o GenerateMonths(NextMonth(current), end)
    ELSE <<>>

RECURSIVE MonthsLater(_, _)
MonthsLater(month, n) == IF n = 0 THEN month ELSE MonthsLater(NextMonth(month), n - 1)

\* The range --start 2023-11 --end <MaxMonths - 1 months later>
RangeStart == 202311
RangeEnd   == MonthsLater(RangeStart, MaxMonths - 1)
Months == Range(GenerateMonths(RangeStart, RangeEnd))

CallMarkComplete ==
    /\ pc = "checkpoint"
    /\ \E month \in Months :
        /\ checkpoint' = MarkComplete(checkpoint, month)
        /\ call' = [ method |-> "mark_complete", month |-> month ]
    /\ UNCHANGED <<pc, rawVars, dimVars, factVars, brVars, date_range, dq_report, outVars,
                   check_args, auxVars, whVars, checkpoint_file, backfill, client>>

CallMarkFailed ==
    /\ pc = "checkpoint"
    /\ \E month \in Months :
        /\ checkpoint' = MarkFailed(checkpoint, month)
        /\ call' = [ method |-> "mark_failed", month |-> month ]
    /\ UNCHANGED <<pc, rawVars, dimVars, factVars, brVars, date_range, dq_report, outVars,
                   check_args, auxVars, whVars, checkpoint_file, backfill, client>>

NextCheckpoint == CallMarkComplete \/ CallMarkFailed

(***************************************************************************)
(* SpecCheckpoint: any sequence of mark_complete / mark_failed calls on a  *)
(* Checkpoint that starts empty.                                           *)
(***************************************************************************)
InitCheckpoint ==
    /\ pc = "checkpoint"
    /\ properties_raw = <<>> /\ property_history_raw = <<>> /\ entities_raw = <<>>
    /\ transactions_raw = <<>>
    /\ date_range = NoRange
    /\ Unbuilt /\ NoOutput

SpecCheckpoint == InitCheckpoint /\ [][NextCheckpoint]_vars

(***************************************************************************)
(* run_backfill (scripts/backfill.py).  backfill holds the call's          *)
(* arguments and locals: all_months, pending, the loop index i and         *)
(* results; loaded is the checkpoint as load_checkpoint returned it, saves *)
(* counts the call's save_checkpoint calls, history is the results of all  *)
(* calls so far and run counts the calls.  process_month returns a         *)
(* BackfillResult whose success depends on the flows it runs, or raises:   *)
(* its imports of the flows (lines 178-179) stand outside its try, so an   *)
(* ImportError leaves process_month and run_backfill.                      *)
(***************************************************************************)
MaxBackfills == 2      \* run_backfill calls

\* load_checkpoint: the file's checkpoint, or an empty one without a file
LoadCheckpoint(file) == IF file # <<>> THEN file[1] ELSE EmptyCheckpoint

\* save_checkpoint
SaveCheckpoint(cp) == <<cp>>

GetPendingMonthsMutantSkipFailed(all_months, cp) ==
    SelectSeq(all_months, LAMBDA m : ~IsDone(cp, m) /\ ~InList(cp.failed, m))

\* get_pending_months
GetPendingMonths(all_months, cp) == SelectSeq(all_months, LAMBDA m : ~IsDone(cp, m))

\* the loop's break: a failed month under stop_on_error
Breaks(success, stop_on_error) == ~success /\ stop_on_error

\* run_backfill up to the loop: lines 232-257
StartBackfill ==
    /\ pc = "idle"
    /\ backfill.run < MaxBackfills
    /\ \E dry_run \in BOOLEAN, stop_on_error \in BOOLEAN :
        LET all_months == GenerateMonths(RangeStart, RangeEnd)
            loaded     == LoadCheckpoint(checkpoint_file)
            pending    == GetPendingMonths(all_months, loaded)
        IN  /\ backfill' = [backfill EXCEPT
                    !.run = @ + 1, !.dry_run = dry_run, !.stop_on_error = stop_on_error,
                    !.all_months = all_months, !.loaded = loaded, !.pending = pending,
                    !.i = 1, !.results = <<>>, !.saves = 0, !.raised = FALSE]
            /\ checkpoint' = loaded
            /\ pc' = IF pending = <<>> \/ dry_run THEN "idle" ELSE "process_month"
    /\ UNCHANGED <<rawVars, dimVars, factVars, brVars, date_range, dq_report, outVars,
                   check_args, auxVars, whVars, checkpoint_file, call, client>>

\* process_month: a BackfillResult from inside the try, or the exception of
\* an import outside it
ProcessMonthOutcomes == {"success", "failure", "raised"}

\* One iteration of the loop: process_month, mark, save, break or go on
ProcessMonth ==
    /\ pc = "process_month"
    /\ \E outcome \in ProcessMonthOutcomes :
        LET key     == backfill.pending[backfill.i]
            success == outcome = "success"
            result  == [ month |-> key, success |-> success ]
        IN  IF outcome = "raised"
            THEN /\ backfill' = [backfill EXCEPT !.raised = TRUE]
                 /\ pc' = "idle"
                 /\ UNCHANGED <<checkpoint, call, checkpoint_file>>
            ELSE /\ checkpoint' = IF success THEN MarkComplete(checkpoint, key)
                                  ELSE MarkFailed(checkpoint, key)
                 /\ call' = [ method |-> IF success THEN "mark_complete" ELSE "mark_failed",
                              month  |-> key ]
                 /\ checkpoint_file' = SaveCheckpoint(checkpoint')
                 /\ backfill' = [backfill EXCEPT
                        !.results = Append(@, result), !.history = Append(@, result),
                        !.saves = @ + 1, !.i = @ + 1]
                 /\ pc' = IF Breaks(success, backfill.stop_on_error)
                             \/ backfill.i = Len(backfill.pending)
                          THEN "idle" ELSE "process_month"
    /\ UNCHANGED <<rawVars, dimVars, factVars, brVars, date_range, dq_report, outVars,
                   check_args, auxVars, whVars, client>>

NextBackfill == StartBackfill \/ ProcessMonth

(***************************************************************************)
(* SpecBackfill: up to MaxBackfills run_backfill calls over the range      *)
(* RangeStart..RangeEnd, starting without a checkpoint file.  Under        *)
(* SpecBackfillFair a started call keeps executing: the loop is a plain    *)
(* for loop and process_month returns.                                     *)
(***************************************************************************)
InitBackfill ==
    /\ pc = "idle"
    /\ properties_raw = <<>> /\ property_history_raw = <<>> /\ entities_raw = <<>>
    /\ transactions_raw = <<>>
    /\ date_range = NoRange
    /\ Unbuilt /\ NoOutput

SpecBackfill == InitBackfill /\ [][NextBackfill]_vars

SpecBackfillFair == SpecBackfill /\ WF_vars(ProcessMonth)

(***************************************************************************)
(* query_cherre (src/raw/cherre_client.py; src/extract/cherre.py has the   *)
(* same body).  Each call posts one request; a retry is the recursive call *)
(* query_cherre(query, variables, retry + 1), whose value the caller       *)
(* returns unchanged.  A response is "ok" (200, JSON without 'errors'),    *)
(* "graphql_errors" (200, JSON with 'errors'), "http_500", "http_other"    *)
(* (another non-200 status), "exception" (requests.post raised) or         *)
(* "bad_json" (200, response.json() raised).                               *)
(***************************************************************************)
DefaultMaxRetries == 3

Responses == {"ok", "graphql_errors", "http_500", "http_other", "exception", "bad_json"}

MayRetryMutantOneMore(retry, max_retries) == retry <= max_retries

\* if retry < max_retries
MayRetry(retry, max_retries) == retry < max_retries

\* wait_time = 5 if response.status_code == 500 else 1; time.sleep(1) after an exception
WaitTime(response) == IF response = "http_500" THEN 5 ELSE 1

QueryCherre ==
    /\ pc = "query_cherre"
    /\ \E response \in Responses :
        LET posted == [client EXCEPT !.requests = @ + 1, !.response = response]
        IN  CASE response = "ok" ->
                    /\ client' = [posted EXCEPT !.result = "result"]
                    /\ pc' = "returned"
              [] response = "graphql_errors" ->
                    /\ client' = [posted EXCEPT !.result = "None"]
                    /\ pc' = "returned"
              [] OTHER ->
                    IF MayRetry(client.retry, client.max_retries)
                    THEN /\ client' = [posted EXCEPT !.retry = @ + 1,
                                                     !.slept = @ + WaitTime(response)]
                         /\ pc' = "query_cherre"
                    ELSE /\ client' = [posted EXCEPT !.result = "None"]
                         /\ pc' = "returned"
    /\ UNCHANGED <<rawVars, dimVars, factVars, brVars, date_range, dq_report, outVars,
                   check_args, auxVars, whVars, cpVars>>

NextClient == QueryCherre

(***************************************************************************)
(* SpecClient: one query_cherre(query) call, retry = 0, under every        *)
(* sequence of responses and every settings.max_retries up to the default. *)
(* Each call returns or recurses (requests.post has a timeout, the sleeps  *)
(* are finite), hence the fairness.                                        *)
(***************************************************************************)
InitClient ==
    /\ pc = "query_cherre"
    /\ properties_raw = <<>> /\ property_history_raw = <<>> /\ entities_raw = <<>>
    /\ transactions_raw = <<>>
    /\ date_range = NoRange
    /\ Unbuilt
    /\ dq_report = EmptyReport
    /\ load_calls = 0 /\ load_result = "none" /\ events = <<>>
    /\ raw_tables = NoRawTables /\ first_run = NoFirstRun
    /\ check_args = [ passed |-> 0, total |-> 0, threshold |-> DefaultThreshold ]
    /\ analytics = NoAnalytics /\ runs = 0
    /\ checkpoint = EmptyCheckpoint /\ checkpoint_file = <<>> /\ call = NoCall
    /\ backfill = NoBackfill
    /\ \E max_retries \in 0..DefaultMaxRetries :
            client = [NoClient EXCEPT !.max_retries = max_retries]

SpecClient == InitClient /\ [][NextClient]_vars /\ WF_vars(QueryCherre)

(***************************************************************************)
(* Properties                                                              *)
(***************************************************************************)
Statuses(report) == {report.checks[i].status : i \in 1..Len(report.checks)}

\* C1: in daily_ownership_flow, load_to_supabase is called if and only if the DQ
\* report holds no FAIL check; with a FAIL check the load is skipped and one
\* nedl.dq.failure event is emitted before the flow returns; a report whose
\* non-PASS checks are all WARN is loaded.  Nothing is loaded or emitted before
\* the load phase.
C1_LoadIffNoFail ==
    /\ pc # "done" => load_calls = 0 /\ events = <<>>
    /\ pc = "done" =>
        /\ "FAIL" \notin Statuses(dq_report)
            => load_calls = 1 /\ load_result = "loaded" /\ events = <<>>
        /\ "FAIL" \in Statuses(dq_report)
            => load_calls = 0 /\ load_result = "skipped"
               /\ events = << "nedl.dq.failure" >>

\* A run that ends loaded although the report holds a WARN (4 of 5 transactions
\* have a party) and no FAIL.
C1_WarnOnlyLoaded ==
    /\ pc = "done"
    /\ Statuses(dq_report) = {"PASS", "WARN"}
    /\ load_calls = 1

\* C2: for every passed, total (> 0) and threshold, dq_check / add_check records
\* exactly one check, whose status is PASS when passed/total*100 >= threshold,
\* WARN when threshold-15 <= passed/total*100 < threshold, FAIL below that.
C2_StatusByPercentage ==
    pc = "done" /\ check_args.total > 0 =>
        /\ Len(dq_report.checks) = 1
        /\ LET pct100 == check_args.passed * 100
               t      == check_args.total
               th     == check_args.threshold
           IN  dq_report.checks[1].status =
                   IF pct100 >= th * t THEN "PASS"
                   ELSE IF pct100 >= (th - 15) * t THEN "WARN"
                   ELSE "FAIL"

\* C3: whenever every non-null property_key of fact_transaction is a property_key
\* of dim_property, the report holds no WARN or FAIL result for the check
\* 'fact_transaction.property_key -> dim_property' (also when every key is null).
C3_NullKeysAreNoViolation ==
    pc \in {"load", "done"} =>
        ( (\A i \in 1..Len(fact_transaction) :
                fact_transaction[i].property_key # NULL =>
                    \E j \in 1..Len(dim_property) :
                        dim_property[j].property_key = fact_transaction[i].property_key)
          => \A k \in 1..Len(dq_report.checks) :
                dq_report.checks[k].check = "fact_transaction.property_key -> dim_property"
                    => dq_report.checks[k].status = "PASS" )

PartySum(ft, field) == SumSeq([i \in 1..Len(ft) |-> ft[i][field]])
RoleRows(btp, role) == Cardinality({i \in 1..Len(btp) : btp[i].party_role = role})

\* C4: with fact_transaction and bridge_transaction_party both non-empty, the
\* consistency category holds a non-PASS check whenever, for either role, the sum
\* of the fact rows' party count differs from the number of bridge rows of that role.
C4_PartyCountMismatchFlagged ==
    ( /\ pc = "done"
      /\ Len(fact_transaction) > 0 /\ Len(bridge_transaction_party) > 0
      /\ \/ PartySum(fact_transaction, "grantor_count")
                # RoleRows(bridge_transaction_party, "grantor")
         \/ PartySum(fact_transaction, "grantee_count")
                # RoleRows(bridge_transaction_party, "grantee") )
    => \E k \in 1..Len(dq_report.checks) :
            /\ dq_report.checks[k].category = "CONSISTENCY"
            /\ dq_report.checks[k].status # "PASS"

\* The rows of dim_property carrying natural key K
RowsOf(K) == {i \in 1..Len(dim_property) : dim_property[i].tax_assessor_id = K}
NaturalKeys == {dim_property[i].tax_assessor_id : i \in 1..Len(dim_property)}

\* C5: for every natural key K in the output of build_dim_property, exactly one
\* row of K has is_current = true, and that row has valid_to = null.
C5_OneCurrentRowPerKey ==
    pc = "build_dim_entity" =>
        \A K \in NaturalKeys :
            /\ Cardinality({i \in RowsOf(K) : dim_property[i].is_current}) = 1
            /\ \A i \in RowsOf(K) :
                    dim_property[i].is_current => dim_property[i].valid_to = NULL

\* Two properties in the output, one of them with three history rows.
C5_TwoKeysOneWithHistory ==
    /\ pc = "build_dim_entity"
    /\ Cardinality(NaturalKeys) = 2
    /\ \E K \in NaturalKeys : Cardinality(RowsOf(K)) = 3

\* C6: the rows of one natural key, in ascending valid_from order, have strictly
\* increasing valid_from and contiguous windows: each row's valid_to is the next
\* row's valid_from, and only the last row has valid_to = null.
C6_ContiguousWindows ==
    pc = "build_dim_entity" =>
        \A K \in NaturalKeys : \A i \in RowsOf(K) :
            LET later == {dim_property[j].valid_from : j \in
                            {j \in RowsOf(K) :
                                dim_property[j].valid_from > dim_property[i].valid_from}}
            IN  /\ \A j \in RowsOf(K) :
                        j # i => dim_property[j].valid_from # dim_property[i].valid_from
                /\ IF later = {}
                   THEN dim_property[i].valid_to = NULL
                   ELSE /\ dim_property[i].valid_to \in later
                        /\ \A v \in later : dim_property[i].valid_to <= v

\* A property whose three history years arrive out of order.
C6_ThreeWindowsFromUnsortedHistory ==
    /\ pc = "build_dim_entity"
    /\ \E K \in NaturalKeys : Cardinality(RowsOf(K)) = 3
    /\ \E i \in 1..Len(property_history_raw) : \E j \in 1..Len(property_history_raw) :
            /\ i < j
            /\ property_history_raw[i].tax_assessor_id
                    = property_history_raw[j].tax_assessor_id
            /\ property_history_raw[i].assessor_snap_shot_year
                    > property_history_raw[j].assessor_snap_shot_year

\* The history records of property K and snapshot year y
YearGroup(K, y) ==
    {i \in 1..Len(property_history_raw) :
        /\ property_history_raw[i].tax_assessor_id = K
        /\ property_history_raw[i].assessor_snap_shot_year = y}
YearsWithHistory(K) ==
    {property_history_raw[i].assessor_snap_shot_year :
        i \in {j \in 1..Len(property_history_raw) :
                    property_history_raw[j].tax_assessor_id = K}}

\* C7: for a property with history the output has exactly one row per distinct
\* snapshot year of that property, and the row's history-derived values are those
\* of a record with the highest cherre_tax_assessor_history_v2_pk of its
\* (property, year) group.
C7_OneRowPerYearFromHighestPk ==
    pc = "build_dim_entity" =>
        \A K \in NaturalKeys :
            YearsWithHistory(K) # {} =>
                /\ Cardinality(RowsOf(K)) = Cardinality(YearsWithHistory(K))
                /\ \A y \in YearsWithHistory(K) :
                    \E r \in RowsOf(K) :
                        /\ dim_property[r].valid_from = y * 10000 + 101
                        /\ \E h \in YearGroup(K, y) :
                            /\ \A g \in YearGroup(K, y) :
                                property_history_raw[g].cherre_tax_assessor_history_v2_pk
                                <= property_history_raw[h].cherre_tax_assessor_history_v2_pk
                            /\ dim_property[r].assessed_value
                                = property_history_raw[h].assessed_value_total
                            /\ dim_property[r].building_sqft
                                = property_history_raw[h].building_sq_ft
                            /\ dim_property[r].land_sqft
                                = property_history_raw[h].lot_size_sq_ft

\* A property with two snapshot years, one of them a group of two records with
\* different pks.
C7_DuplicateYearDistinctPks ==
    /\ pc = "build_dim_entity"
    /\ \E K \in NaturalKeys : \E y \in YearsWithHistory(K) :
        \E g \in YearGroup(K, y) : \E h \in YearGroup(K, y) :
            /\ Cardinality(YearsWithHistory(K)) = 2
            /\ property_history_raw[g].cherre_tax_assessor_history_v2_pk
                > property_history_raw[h].cherre_tax_assessor_history_v2_pk

Carried(hist_value, prop_value) == IF hist_value # NULL THEN hist_value ELSE prop_value

\* C8: for every history-derived row, each numeric field (assessed value, building
\* square footage, land square footage) equals the history record's value when the
\* history record carries one, and otherwise the current property record's value.
C8_HistoryValueElseCurrent ==
    pc = "build_dim_entity" =>
        \A K \in NaturalKeys : \A y \in YearsWithHistory(K) :
            \A r \in RowsOf(K) :
                dim_property[r].valid_from = y * 10000 + 101 =>
                    \E h \in YearGroup(K, y) : \E p \in 1..Len(properties_raw) :
                        /\ properties_raw[p].tax_assessor_id = K
                        /\ dim_property[r].assessed_value
                            = Carried(property_history_raw[h].assessed_value_total,
                                      properties_raw[p].assessed_value_total)
                        /\ dim_property[r].building_sqft
                            = Carried(property_history_raw[h].building_sq_ft,
                                      properties_raw[p].building_sq_ft)
                        /\ dim_property[r].land_sqft
                            = Carried(property_history_raw[h].lot_size_sq_ft,
                                      properties_raw[p].lot_size_sq_ft)

CurrentRows(tax_id) ==
    {j \in 1..Len(dim_property) :
        dim_property[j].is_current /\ dim_property[j].tax_assessor_id = tax_id}

\* C9: in one run, each fact row's property_key is the surrogate key of the
\* current dim_property row of the transaction's tax_assessor_id when there is
\* one, and null otherwise; property_key_lookup has one entry per natural key of
\* the dimension output, taken from its current row.
C9_PropertyKeyOfCurrentRow ==
    pc \notin {"build_dim_property", "build_dim_entity", "build_fact_transaction"} =>
        /\ Len(fact_transaction) = Len(transactions_raw)
        /\ \A i \in 1..Len(fact_transaction) :
            LET rows == CurrentRows(transactions_raw[i].tax_assessor_id)
            IN  IF rows = {}
                THEN fact_transaction[i].property_key = NULL
                ELSE \A j \in rows :
                        fact_transaction[i].property_key = dim_property[j].property_key
        /\ DOMAIN property_key_lookup = NaturalKeys
        /\ \A K \in NaturalKeys : \A j \in CurrentRows(K) :
                property_key_lookup[K] = dim_property[j].property_key

\* A run with a transaction on a property that has a superseded row, and a
\* transaction on an untracked property.
C9_TrackedWithHistoryAndUntracked ==
    /\ pc = "done"
    /\ \E i \in 1..Len(fact_transaction) :
            /\ fact_transaction[i].property_key # NULL
            /\ \E j \in 1..Len(dim_property) :
                    /\ dim_property[j].tax_assessor_id
                            = transactions_raw[i].tax_assessor_id
                    /\ ~dim_property[j].is_current
    /\ \E i \in 1..Len(fact_transaction) :
            /\ transactions_raw[i].tax_assessor_id = 3
            /\ fact_transaction[i].property_key = NULL

Built(phase) ==
    CASE phase = "fact"    -> pc \in {"build_bridge_transaction_party",
                                      "build_bridge_property_owner",
                                      "validate", "load", "done"}
      [] phase = "bridges" -> pc \in {"validate", "load", "done"}

\* C11: in the output of build_fact_transaction no two fact rows carry the same
\* recorder_id, for every input sequence of transactions.
C11_RecorderIdUnique ==
    Built("fact") =>
        \A i \in 1..Len(fact_transaction) : \A j \in 1..Len(fact_transaction) :
            i # j => fact_transaction[i].recorder_id # fact_transaction[j].recorder_id

SurrogateKeys(rows, key_field) == {rows[i][key_field] : i \in 1..Len(rows)}

\* C12: in the outputs of one run, every non-null transaction_key of
\* bridge_transaction_party is a transaction_key of fact_transaction, and every
\* non-null property_key and entity_key of bridge_property_owner is a key of
\* dim_property and of dim_entity.
C12_BridgeKeysResolve ==
    Built("bridges") =>
        /\ \A i \in 1..Len(bridge_transaction_party) :
            bridge_transaction_party[i].transaction_key # NULL =>
                bridge_transaction_party[i].transaction_key
                    \in SurrogateKeys(fact_transaction, "transaction_key")
        /\ \A i \in 1..Len(bridge_property_owner) :
            /\ bridge_property_owner[i].property_key # NULL =>
                    bridge_property_owner[i].property_key
                        \in SurrogateKeys(dim_property, "property_key")
            /\ bridge_property_owner[i].entity_key # NULL =>
                    bridge_property_owner[i].entity_key
                        \in SurrogateKeys(dim_entity, "entity_key")

\* A run with party rows, ownership rows of two entities, and a repeated
\* recorder_id.
C12_BothBridgesPopulated ==
    /\ pc = "done"
    /\ Len(bridge_transaction_party) > 0
    /\ Cardinality(SurrogateKeys(bridge_property_owner, "entity_key")) = 2
    /\ Len(fact_transaction) = 2
    /\ fact_transaction[1].recorder_id = fact_transaction[2].recorder_id

Resolves(lookup, k) == k \in DOMAIN lookup
Grantors(i) == transactions_raw[i].recorder_grantor_v2__recorder_id
Grantees(i) == transactions_raw[i].recorder_grantee_v2__recorder_id

\* Number of bridge rows due to the transactions before transaction i
RowsBefore(i) ==
    SumSeq([j \in 1..(i-1) |->
                IF Resolves(transaction_key_lookup, transactions_raw[j].recorder_id)
                THEN Len(Grantors(j)) + Len(Grantees(j)) ELSE 0])

PartyRowIs(row, i, role, seq, party) ==
    /\ row.transaction_key = transaction_key_lookup[transactions_raw[i].recorder_id]
    /\ row.party_role = role
    /\ row.party_sequence = seq
    /\ row.party_name_raw = party.name
    /\ row.entity_key = NULL
    /\ row.is_resolved = FALSE

\* C13: build_bridge_transaction_party emits, for each transaction whose
\* recorder_id is in the lookup, one row per embedded grantor followed by one row
\* per embedded grantee, party_sequence counting 1..n per role, entity_key null
\* and is_resolved false; a transaction absent from the lookup contributes no row.
C13_PartyRowsPerTransaction ==
    pc \in {"build_bridge_property_owner", "validate"} =>
        /\ Len(bridge_transaction_party) = RowsBefore(Len(transactions_raw) + 1)
        /\ \A i \in 1..Len(transactions_raw) :
            Resolves(transaction_key_lookup, transactions_raw[i].recorder_id) =>
                /\ \A k \in 1..Len(Grantors(i)) :
                    PartyRowIs(bridge_transaction_party[RowsBefore(i) + k],
                               i, "grantor", k, Grantors(i)[k])
                /\ \A k \in 1..Len(Grantees(i)) :
                    PartyRowIs(bridge_transaction_party[RowsBefore(i) + Len(Grantors(i)) + k],
                               i, "grantee", k, Grantees(i)[k])

\* A transaction with parties that is absent from the lookup, followed by a
\* resolved transaction with two grantors and two grantees.
C13_SkippedThenTwoPerRole ==
    /\ pc = "validate"
    /\ Len(transactions_raw) = 2
    /\ ~Resolves(transaction_key_lookup, transactions_raw[1].recorder_id)
    /\ Len(Grantors(1)) = 2
    /\ Resolves(transaction_key_lookup, transactions_raw[2].recorder_id)
    /\ Len(Grantors(2)) = 2 /\ Len(Grantees(2)) = 2
    /\ Len(bridge_transaction_party) = 4

\* The owner records that resolve in both lookups
OwnerResolves(e) ==
    /\ Resolves(property_key_lookup, e.tax_assessor_id)
    /\ Resolves(entity_key_lookup, e.owner_id)

\* C14: build_bridge_property_owner emits a row for an owner record if and only
\* if its tax_assessor_id resolves in the property lookup and its owner_id in the
\* entity lookup; nothing is emitted for a record that does not resolve (owners
\* O1, O2 of P1 with only O1 resolvable give one row, for O1, with
\* ownership_sequence 1).
C14_OwnerRowsIffResolved ==
    pc = "validate" =>
        /\ Len(bridge_property_owner)
                = Cardinality({i \in 1..Len(entities_raw) : OwnerResolves(entities_raw[i])})
        /\ \A i \in 1..Len(entities_raw) :
            OwnerResolves(entities_raw[i]) =>
                Cardinality({r \in 1..Len(bridge_property_owner) :
                    /\ bridge_property_owner[r].property_key
                            = property_key_lookup[entities_raw[i].tax_assessor_id]
                    /\ bridge_property_owner[r].entity_key
                            = entity_key_lookup[entities_raw[i].owner_id]})
                = Cardinality({j \in 1..Len(entities_raw) :
                    /\ entities_raw[j].tax_assessor_id = entities_raw[i].tax_assessor_id
                    /\ entities_raw[j].owner_id = entities_raw[i].owner_id})
        /\ ( /\ Len(entities_raw) = 2
             /\ entities_raw[1].tax_assessor_id = entities_raw[2].tax_assessor_id
             /\ OwnerResolves(entities_raw[1])
             /\ ~OwnerResolves(entities_raw[2]) )
            => /\ Len(bridge_property_owner) = 1
               /\ bridge_property_owner[1].ownership_sequence = 1

\* Owners O1 and O2 of one resolved property, O2 with an owner_id the entity
\* lookup does not hold.
C14_SecondOwnerUnresolved ==
    /\ pc = "validate"
    /\ Len(entities_raw) = 2
    /\ entities_raw[1].tax_assessor_id = entities_raw[2].tax_assessor_id
    /\ OwnerResolves(entities_raw[1])
    /\ entities_raw[2].owner_id = <<"BOLT">>
    /\ ~Resolves(entity_key_lookup, <<"BOLT">>)
    /\ Len(bridge_property_owner) = 1

EntityBuilt == pc \in {"build_fact_transaction", "done"}

\* The owner_ids of the input: neither null nor the empty string
InputOwnerIds ==
    {entities_raw[i].owner_id : i \in 1..Len(entities_raw)} \ {<<>>, <<"">>}

FirstRecordOf(owner_id) ==
    entities_raw[CHOOSE i \in 1..Len(entities_raw) :
        /\ entities_raw[i].owner_id = owner_id
        /\ \A j \in 1..(i-1) : entities_raw[j].owner_id # owner_id]

ScoreOf(e) ==
    (IF e.has_confidence = 1 THEN 50 ELSE 0)
    + (IF e.occurrences_count = NULL THEN 10
       ELSE IF e.occurrences_count >= 10 THEN 50
       ELSE IF e.occurrences_count >= 5 THEN 30
       ELSE IF e.occurrences_count >= 2 THEN 20
       ELSE 10)

\* C15: build_dim_entity emits exactly one row per distinct owner_id of the input,
\* built from the first record of that owner_id in input order, with
\* confidence_score = (50 if has_confidence) + (50 / 30 / 20 / 10 for occurrences
\* >= 10 / >= 5 / >= 2 / otherwise), a value in {10, 20, 30, 50, 60, 70, 80, 100}.
C15_OneRowPerOwnerFromFirstRecord ==
    EntityBuilt =>
        /\ Len(dim_entity) = Cardinality(InputOwnerIds)
        /\ {dim_entity[i].canonical_entity_id : i \in 1..Len(dim_entity)} = InputOwnerIds
        /\ \A i \in 1..Len(dim_entity) :
            LET first == FirstRecordOf(dim_entity[i].canonical_entity_id)
            IN  /\ dim_entity[i].confidence_score = ScoreOf(first)
                /\ dim_entity[i].canonical_entity_name = first.owner_name
                /\ dim_entity[i].occurrences_count = first.occurrences_count
                /\ dim_entity[i].confidence_score \in {10, 20, 30, 50, 60, 70, 80, 100}

\* Two records of one owner_id that score differently, the first one 100.
C15_DuplicateOwnerScoresDiffer ==
    /\ EntityBuilt
    /\ Len(entities_raw) = 2
    /\ entities_raw[1].owner_id = entities_raw[2].owner_id
    /\ ScoreOf(entities_raw[1]) = 100
    /\ ScoreOf(entities_raw[2]) = 70
    /\ Len(dim_entity) = 1

IdentifiersOf(identifiers, entity_key) ==
    {i \in 1..Len(identifiers) : identifiers[i].entity_key = entity_key}

\* C16: every dim_entity row has exactly one identifier row with is_primary =
\* true, whose value is the full owner_id, and has a non-primary identifier row
\* (the first part of the owner_id) only if the owner_id is a composite of
\* separator-delimited parts; an owner_id without separator has none.
C16_SecondaryOnlyForComposite ==
    EntityBuilt =>
        \A e \in 1..Len(dim_entity) :
            LET ids == IdentifiersOf(dim_entity_identifier, dim_entity[e].entity_key)
                primary == {i \in ids : dim_entity_identifier[i].is_primary}
            IN  /\ Cardinality(primary) = 1
                /\ \A i \in primary :
                    dim_entity_identifier[i].identifier_value
                        = dim_entity[e].canonical_entity_id
                /\ \A i \in ids \ primary :
                    /\ Len(dim_entity[e].canonical_entity_id) >= 2
                    /\ dim_entity_identifier[i].identifier_value
                        = << dim_entity[e].canonical_entity_id[1] >>

\* C17: for every natural key in the output of build_dim_entity at most one row
\* has is_current = true, and the current row of each natural key has
\* valid_to = null.
C17_CurrentEntityRowOpenEnded ==
    EntityBuilt =>
        \A i \in 1..Len(dim_entity) :
            /\ \A j \in 1..Len(dim_entity) :
                ( /\ j # i
                  /\ dim_entity[j].canonical_entity_id = dim_entity[i].canonical_entity_id )
                => ~(dim_entity[i].is_current /\ dim_entity[j].is_current)
            /\ dim_entity[i].is_current => dim_entity[i].valid_to = NULL

\* canonical_entity_id -> confidence_score of a dim_entity output
ScoresById(entity_rows) ==
    {<<entity_rows[i].canonical_entity_id, entity_rows[i].confidence_score>> :
        i \in 1..Len(entity_rows)}

\* (canonical_entity_id, identifier_type, identifier_value, is_primary) of an output
IdentifiersById(entity_rows, identifiers) ==
    UNION { {<<entity_rows[e].canonical_entity_id, identifiers[i].identifier_type,
               identifiers[i].identifier_value, identifiers[i].is_primary>> :
                i \in IdentifiersOf(identifiers, entity_rows[e].entity_key)} :
            e \in 1..Len(entity_rows) }

PartiesBefore(i, nested_field) ==
    SumSeq([j \in 1..(i-1) |-> Len(transactions_raw[j][nested_field])])

PartiesInInputOrder(rows, nested_field) ==
    /\ Len(rows) = PartiesBefore(Len(transactions_raw) + 1, nested_field)
    /\ \A i \in 1..Len(transactions_raw) :
        \A k \in 1..Len(transactions_raw[i][nested_field]) :
            LET row == rows[PartiesBefore(i, nested_field) + k]
            IN  /\ row.recorder_id = transactions_raw[i].recorder_id
                /\ row.name = transactions_raw[i][nested_field][k].name

C19_BuildersNeverRaise == pc # "raised"

(***************************************************************************)
(* Warehouse loads                                                         *)
(***************************************************************************)
NaturalKeyOf == [ dim_property     |-> "tax_assessor_id",
                  dim_entity       |-> "canonical_entity_id",
                  fact_transaction |-> "recorder_id" ]

OneRowPerNaturalKey(table, natural_key) ==
    \A i, j \in 1..Len(table) : table[i][natural_key] = table[j][natural_key] => i = j

KeepsNaturalKeys(old, new, natural_key) ==
    \A i \in 1..Len(old) : new[i][natural_key] = old[i][natural_key]

\* C21: the analytics loads upsert by natural key: after any sequence of
\* build runs over changing source data each warehouse table holds at most
\* one row per natural key (tax_assessor_id, canonical_entity_id,
\* recorder_id), and no load overwrites a row with a row of another natural
\* key.
C21_UpsertByNaturalKey ==
    /\ [](\A t \in DOMAIN NaturalKeyOf : OneRowPerNaturalKey(analytics[t], NaturalKeyOf[t]))
    /\ [][\A t \in DOMAIN NaturalKeyOf :
            KeepsNaturalKeys(analytics[t], analytics'[t], NaturalKeyOf[t])]_vars

(***************************************************************************)
(* Surrogate keys                                                          *)
(***************************************************************************)
DenseKeys(rows, key_field) == \A i \in 1..Len(rows) : rows[i][key_field] = i

\* C22: each builder counts its surrogate keys from 1: in every output table
\* of one build the keys are 1..N in emission order, N the number of rows, and
\* the i-th input transaction gets transaction_key i.
C22_DenseSurrogateKeys ==
    /\ DenseKeys(dim_property, "property_key")
    /\ DenseKeys(dim_entity, "entity_key")
    /\ DenseKeys(dim_entity_identifier, "identifier_key")
    /\ DenseKeys(fact_transaction, "transaction_key")
    /\ DenseKeys(bridge_transaction_party, "bridge_key")
    /\ DenseKeys(bridge_property_owner, "bridge_key")
    /\ Built("fact") =>
            /\ Len(fact_transaction) = Len(transactions_raw)
            /\ \A i \in 1..Len(transactions_raw) :
                    /\ fact_transaction[i].recorder_id = transactions_raw[i].recorder_id
                    /\ fact_transaction[i].transaction_key = i

\* Every table of one build holds rows, four of them more than one
C22_AllTablesBuilt ==
    /\ pc = "done"
    /\ Len(dim_property) >= 2 /\ Len(dim_entity) >= 2
    /\ Len(dim_entity_identifier) >= 3
    /\ Len(fact_transaction) >= 2
    /\ Len(bridge_transaction_party) >= 4
    /\ Len(bridge_property_owner) >= 2

(***************************************************************************)
(* Checkpoint                                                              *)
(***************************************************************************)
Occurrences(list, month) == Cardinality({i \in 1..Len(list) : list[i] = month})

\* C23: on every checkpoint reachable from the empty one, after
\* mark_complete(m) the month m occurs exactly once in completed and not in
\* failed, and a second mark_complete(m) changes nothing.
C23_MarkCompleteOnceAndIdempotent ==
    call.method = "mark_complete" =>
        /\ Occurrences(checkpoint.completed, call.month) = 1
        /\ ~InList(checkpoint.failed, call.month)
        /\ MarkComplete(checkpoint, call.month) = checkpoint

\* mark_complete of a month completed before, with other months failed
C23_CompletedAgainBesideFailed ==
    /\ call.method = "mark_complete"
    /\ Len(checkpoint.completed) >= 2
    /\ checkpoint.completed[1] = call.month
    /\ Len(checkpoint.failed) >= 1

\* C30: after any sequence of mark_complete and mark_failed calls from the
\* empty Checkpoint no month is in both completed and failed, and neither list
\* holds a month twice.
C30_ListsDisjointNoDuplicates ==
    \A month \in Months :
        /\ ~(InList(checkpoint.completed, month) /\ InList(checkpoint.failed, month))
        /\ Occurrences(checkpoint.completed, month) <= 1
        /\ Occurrences(checkpoint.failed, month) <= 1

(***************************************************************************)
(* Backfill                                                                *)
(***************************************************************************)
PositionIn(list, month) == CHOOSE i \in 1..Len(list) : list[i] = month

MonthsOf(results) == [k \in 1..Len(results) |-> results[k].month]

\* C24: backfill resumes from its checkpoint: pending is the months of the
\* range not in completed, in their original order; no month is processed
\* once it has succeeded; after each month the saved checkpoint is the current
\* one and records the month; months recorded as failed are pending again.
C24_ResumesFromCheckpoint ==
    /\ Range(backfill.pending) =
            Range(backfill.all_months) \ Range(backfill.loaded.completed)
    /\ \A a, b \in 1..Len(backfill.pending) :
            a < b => PositionIn(backfill.all_months, backfill.pending[a])
                        < PositionIn(backfill.all_months, backfill.pending[b])
    /\ \A k \in 1..Len(backfill.history) :
            ~\E j \in 1..(k - 1) : /\ backfill.history[j].month = backfill.history[k].month
                                   /\ backfill.history[j].success
    /\ \A k \in 1..Len(backfill.results) :
            ~InList(backfill.loaded.completed, backfill.results[k].month)
    /\ backfill.results # <<>> =>
            /\ checkpoint_file = <<checkpoint>>
            /\ \A k \in 1..Len(backfill.results) :
                    IF backfill.results[k].success
                    THEN InList(checkpoint_file[1].completed, backfill.results[k].month)
                    ELSE InList(checkpoint_file[1].failed, backfill.results[k].month)
    /\ \A m \in Range(backfill.loaded.failed) : InList(backfill.pending, m)

\* A second run that skips a month completed by the first and processes
\* again a month that failed in the first
C24_SecondRunRetriesFailedMonth ==
    /\ backfill.run = 2
    /\ backfill.results # <<>>
    /\ backfill.loaded.completed # <<>>
    /\ \E k \in 1..Len(backfill.results) :
            InList(backfill.loaded.failed, backfill.results[k].month)

\* C25: within one run_backfill the pending months are processed one at a
\* time in chronological order, each at most once; under stop_on_error nothing
\* is processed after the first failing month and the later months stay
\* pending; without it every pending month is processed once whatever failed
\* before; a dry run processes nothing and writes no checkpoint; the run
\* terminates.
C25_ProcessesPendingInOrder ==
    /\ [](/\ MonthsOf(backfill.results)
                = SubSeq(backfill.pending, 1, Len(backfill.results))
          /\ \A a, b \in 1..Len(backfill.results) :
                a < b => backfill.results[a].month < backfill.results[b].month
          /\ backfill.stop_on_error =>
                /\ \A k \in 1..Len(backfill.results) :
                        ~backfill.results[k].success =>
                            k = Len(backfill.results) /\ pc = "idle"
                /\ \A j \in (Len(backfill.results) + 1)..Len(backfill.pending) :
                        ~IsDone(LoadCheckpoint(checkpoint_file), backfill.pending[j])
          /\ (pc = "idle" /\ ~backfill.stop_on_error /\ ~backfill.dry_run) =>
                MonthsOf(backfill.results) = backfill.pending
          /\ backfill.dry_run =>
                /\ backfill.results = <<>> /\ backfill.saves = 0
                /\ LoadCheckpoint(checkpoint_file) = backfill.loaded)
    /\ (pc = "process_month") ~> (pc = "idle")

(***************************************************************************)
(* Party counts                                                            *)
(***************************************************************************)
GrantorCountChecks ==
    {k \in 1..Len(dq_report.checks) :
        dq_report.checks[k].check = "bridge grantor count = fact.grantor_count sum"}

\* C26: with fact_transaction and bridge_transaction_party both non-empty and
\* the number of grantor bridge rows equal to the sum of grantor_count over
\* the fact rows, the check 'bridge grantor count = fact.grantor_count sum' is
\* PASS, also when both numbers are zero.
C26_MatchingGrantorCountsPass ==
    ( /\ pc = "done"
      /\ Len(fact_transaction) > 0 /\ Len(bridge_transaction_party) > 0
      /\ RoleRows(bridge_transaction_party, "grantor")
            = PartySum(fact_transaction, "grantor_count") )
    => /\ GrantorCountChecks # {}
       /\ \A k \in GrantorCountChecks : dq_report.checks[k].status = "PASS"

(***************************************************************************)
(* Ownership sequence                                                      *)
(***************************************************************************)
OwnerRowsOf(property_key) ==
    SelectSeq(bridge_property_owner, LAMBDA row : row.property_key = property_key)

\* C27: in the output of build_bridge_property_owner the rows of one property
\* carry ownership_sequence 1, 2, ..., k in input order without gaps, k the
\* number of rows emitted for the property, also when owners of the property
\* are skipped as unresolved.
C27_OwnershipSequenceGapless ==
    \A property_key \in {bridge_property_owner[i].property_key :
                            i \in 1..Len(bridge_property_owner)} :
        \A k \in 1..Len(OwnerRowsOf(property_key)) :
            OwnerRowsOf(property_key)[k].ownership_sequence = k

(***************************************************************************)
(* Cherre client                                                           *)
(***************************************************************************)
Retryable == {"http_500", "http_other", "exception", "bad_json"}

\* C28: query_cherre terminates with at most max_retries + 1 requests: a
\* non-200 response or an exception is retried only while the retry count is
\* below max_retries, a 200 response with GraphQL 'errors' gives None with no
\* retry, and the value returned is a response without errors or None.
C28_BoundedRetries ==
    /\ [](/\ client.requests <= client.max_retries + 1
          /\ (pc = "query_cherre" /\ client.requests > 0) =>
                /\ client.response \in Retryable
                /\ client.retry <= client.max_retries
          /\ client.response = "graphql_errors" =>
                pc = "returned" /\ client.result = "None"
          /\ pc = "returned" =>
                /\ client.result \in {"result", "None"}
                /\ client.result = "result" <=> client.response = "ok")
    /\ <>(pc = "returned")

\* Every retry used up, a 500 among the responses, and None returned
C28_RetriesExhausted ==
    /\ pc = "returned"
    /\ client.max_retries = DefaultMaxRetries
    /\ client.requests = DefaultMaxRetries + 1
    /\ client.slept > DefaultMaxRetries
    /\ client.result = "None"

PartyRowsOf(transaction_key, role) ==
    Cardinality({k \in 1..Len(bridge_transaction_party) :
                    /\ bridge_transaction_party[k].transaction_key = transaction_key
                    /\ bridge_transaction_party[k].party_role = role})

\* C29: in one pipeline run every fact row's grantor_count is the number of
\* grantor bridge rows carrying its transaction_key, and likewise for
\* grantees, for every input sequence of transactions, repeated recorder_ids
\* included.
C29_PartyCountsPerTransaction ==
    Built("bridges") =>
        \A i \in 1..Len(fact_transaction) :
            /\ PartyRowsOf(fact_transaction[i].transaction_key, "grantor")
                    = fact_transaction[i].grantor_count
            /\ PartyRowsOf(fact_transaction[i].transaction_key, "grantee")
                    = fact_transaction[i].grantee_count

====
